---- MODULE Spec2Model ----
(***************************************************************************)
(* State-machine model of the cache-fronted key-value server:              *)
(*   - FineLRUCache            (src/server/caches/ShardedCache.hpp)        *)
(*   - ConnectionPool /        (src/server/db_conn_pool.hpp)               *)
(*     PooledConnection                                                    *)
(*   - KvServer, KvServerCw    (src/server/kv_server.cpp,                  *)
(*                              src/server/kv_server_cw.cpp)               *)
(*   - KvDatabase              (src/server/kv_database.cpp)                *)
(*   - the load generator      (src/client/main.cpp and the workload       *)
(*                              classes of src/client)                     *)
(*                                                                         *)
(* An optional<V> is the empty sequence (std::nullopt) or <<v>>.           *)
(* A map (unordered_map, SQL table) is a function whose DOMAIN is the set  *)
(* of keys present.  A null unique_ptr is the empty sequence, an owning    *)
(* unique_ptr is <<id>> with id the identity of the connection object.     *)
(***************************************************************************)
EXTENDS Integers, Sequences, FiniteSets, TLC

\* ---------------------------------------------------------------- bounds
MaxKey == 2          \* cache keys are 0..MaxKey
MaxVal == 2          \* values are 1..MaxVal
MaxCacheSize == 2    \* constructor argument max_size ranges over 0..MaxCacheSize
MaxShards == 3       \* constructor argument shard_count ranges over 0..MaxShards
NumThreads == 3      \* threads using the pool / handler threads of the server
MaxPoolSize == 2     \* ConnectionPool max_size ranges over 1..MaxPoolSize
MaxAcquires == 3     \* acquire() is called at most this often in one run
MaxRequests == 4     \* the server receives at most this many requests in one run
NumWorkers == 2      \* worker threads of the server (num_threads of main)
MaxReqKey == 1       \* requests name the keys 0..MaxReqKey
NumFaultWorkers == 1 \* worker threads when requests fail on their way
MaxClientThreads == 2 \* num_threads of the load generator ranges over 1..MaxClientThreads
MaxOps == 2          \* a worker of the load generator executes at most this many operations
MaxElapsed == 2      \* an operation takes 1..MaxElapsed microseconds
MaxSeed == 1         \* the seed argument ranges over -MaxSeed-1..MaxSeed, and INT_MAX
MaxEntropy == 1      \* std::random_device returns 0..MaxEntropy
NumCacheThreads == 2 \* threads calling the cache when its locks are modelled

Keys == 0..MaxKey
Values == 1..MaxVal
Threads == 1..NumThreads
Workers == 1..NumWorkers
ReqKeys == 0..MaxReqKey
CacheThreads == 1..NumCacheThreads
Slots == {1, 2}      \* the PooledConnection objects a thread may have alive
Optionals == {<<>>} \cup {<<v>> : v \in Values}

VARIABLES
    \* FineLRUCache
    ctor_args,      \* the arguments the constructor was called with
    ctor_result,    \* "ok", or the exception the constructor threw
    num_shards_,    \* FineLRUCache::num_shards_
    shards_,        \* FineLRUCache::shards_ : sequence of Shard records
    clear_pos,      \* Clear(): 0 when not running, else index of the next shard to clear
    cache_ret,      \* what the last completed cache call returned
    clear_late,     \* history: keys Put, while Clear runs, into a shard it has cleared
    touched         \* history, per shard: the calls Put(k) / Get(k) on keys of the shard
                    \* since the last Remove or Clear there, latest first, as records
                    \* [key, ok]; ok is FALSE for a Get that missed, and a miss is
                    \* remembered only while it is the latest call

cacheVars == <<ctor_args, ctor_result, num_shards_, shards_, clear_pos, cache_ret,
               clear_late, touched>>

VARIABLES
    \* ConnectionPool
    max_size_,          \* ConnectionPool::max_size_
    total_connections_, \* ConnectionPool::total_connections_
    idle_connections_,  \* ConnectionPool::idle_connections_ (front first)
    created,            \* connection objects the factory has made so far (their ids)
    handle,             \* handle[t][s]: a PooledConnection object of thread t
    pc,                 \* where each thread is
    acquires,           \* number of acquire() calls so far
    arrival,            \* threads blocked in acquire(), in the order they blocked
    thrown              \* thrown[t]: the exception the thread's last call threw, or "none"

poolVars == <<max_size_, total_connections_, idle_connections_, created, handle, pc,
              acquires, arrival, thrown>>

VARIABLES
    \* KvServer / KvServerCw and the database behind them
    impl,           \* which handler class serves: "KvServer" or "KvServerCw"
    kv_table,       \* the table key_value: key -> value, for the keys that have a row
    req,            \* req[t]: the request thread t is handling (or handled last)
    opt_value,      \* opt_value[t]: what getValueForKey returned to the handler
    res,            \* res[t]: the response: status, body, and whether it was sent
    totalGets,      \* KvServer::totalGets
    cacheHits,      \* KvServer::cacheHits
    requests,       \* number of requests received so far
    last_write,     \* last_write[k]: the store contents for k the completed writes
                    \* determine: {<<v>>}, {<<>>} (no row), or Optionals (undetermined)
    sequential      \* no two requests have overlapped so far

srvVars == <<impl, kv_table, req, opt_value, res, totalGets, cacheHits, requests,
             last_write, sequential>>

VARIABLES
    \* the load generator (src/client/main.cpp)
    keep_running,           \* the stop flag
    total_requests,         \* the shared totals
    total_errors,
    total_duration_micros,
    loadgen,                \* main(): its arguments and where it is
    worker                  \* worker[i]: the locals of client_worker in thread i

clientVars == <<keep_running, total_requests, total_errors, total_duration_micros,
                loadgen, worker>>

VARIABLES
    \* FineLRUCache, its locks
    mutex_,         \* mutex_[i]: the thread holding Shard::mutex_ of shard i, or 0
    call            \* call[t]: the cache call thread t is in, and its locals

lockVars == <<mutex_, call>>

VARIABLES
    \* the increments of totalGets and cacheHits, taken apart
    tmp,            \* tmp[t]: the value thread t read from the counter it is incrementing
    counted         \* history: how many increments of each counter have been executed

countVars == <<tmp, counted>>

vars == <<cacheVars, poolVars, srvVars, clientVars, lockVars, countVars>>

\* ------------------------------------------------------------ small helpers
Sum(f, S) == LET RECURSIVE go(_)
                 go(T) == IF T = {} THEN 0
                          ELSE LET x == CHOOSE y \in T : TRUE
                               IN f[x] + go(T \ {x})
             IN go(S)

SeqToSet(s) == {s[i] : i \in 1..Len(s)}

Without(s, x) == SelectSeq(s, LAMBDA y : y # x)

\* ============================================================ FineLRUCache

\* struct Shard, freshly constructed.  lru_list_ is the sequence of the keys in the
\* list nodes, front first, and nodes the sequence of the identities of those nodes;
\* cache_map_[k] is the .first of the pair stored for k (the value) and iters[k] its
\* .second: the identity of the node the stored iterator designates
NewShard(max_size) ==
    [lru_list_ |-> <<>>, nodes |-> <<>>, cache_map_ |-> <<>>, iters |-> <<>>,
     max_shard_size_ |-> max_size]

\* constructor loop body: the slot count of shard i (0-based)
ShardSize(max_size, shard_count, i) ==
    LET base_size == max_size \div shard_count
        remainder == max_size % shard_count
        shard_size == base_size + (IF i < remainder THEN 1 ELSE 0)
    IN  IF shard_size = 0 /\ max_size > 0 THEN 1 ELSE shard_size

\* constructor loop: the shards emplaced, in order
RECURSIVE BuildShards(_, _, _)
BuildShards(max_size, shard_count, i) ==
    IF i >= shard_count THEN <<>>
    ELSE LET sz == ShardSize(max_size, shard_count, i)
         IN  (IF sz > 0 THEN <<NewShard(sz)>> ELSE <<>>)
             \o BuildShards(max_size, shard_count, i + 1)

\* a constructor without the test of the shard count
Construct_NoShardTest(max_size, shard_count) ==
    IF max_size = 0
    THEN [result |-> "invalid_argument", num |-> shard_count, shards |-> <<>>]
    ELSE LET shs == BuildShards(max_size, shard_count, 0)
         IN  [result |-> IF Len(shs) = 0 THEN "runtime_error" ELSE "ok",
              num |-> Len(shs), shards |-> shs]

\* FineLRUCache::FineLRUCache: the members after the constructor ran
Construct(max_size, shard_count) ==
    IF max_size = 0 \/ shard_count = 0
    THEN [result |-> "invalid_argument", num |-> shard_count, shards |-> <<>>]
    ELSE LET shs == BuildShards(max_size, shard_count, 0)
         IN  [result |-> IF Len(shs) = 0 THEN "runtime_error" ELSE "ok",
              num |-> Len(shs), shards |-> shs]

\* std::hash<int>
key_hasher_(key) == key

\* a lookup that always takes the first shard
getShardForKey_FirstShard(key) == 1

\* getShardForKey: the index into shards_ (1-based here)
getShardForKey(key) == (key_hasher_(key) % num_shards_) + 1

\* the position in the list of the node an iterator designates
NodeAt(shard, it) == CHOOSE p \in 1..Len(shard.nodes) : shard.nodes[p] = it

\* the key in the node an iterator designates
Deref(shard, it) == shard.lru_list_[NodeAt(shard, it)]

\* list::push_front allocates a node: an identity no node of the list has
NewNode(nodes) == CHOOSE n \in 1..(Len(nodes) + 1) : n \notin SeqToSet(nodes)

\* f with key removed
Erase(f, key) == [k \in (DOMAIN f) \ {key} |-> f[k]]

\* f with key mapped to x
Store(f, key, x) == [k \in (DOMAIN f) \cup {key} |-> IF k = key THEN x ELSE f[k]]

\* a splice that moves the node of key to the back of the list
SpliceFront_ToBack(list, key) == Without(list, key) \o <<key>>

\* list::splice(begin, list, it): move the node of key to the front
SpliceFront(list, key) == <<key>> \o Without(list, key)

\* Put that evicts the most recently used key instead of the least recently used one
ShardPut_EvictsMru(shard, key, value) ==
    IF key \in DOMAIN shard.cache_map_
    THEN LET it == shard.iters[key]
         IN  [shard EXCEPT
                !.cache_map_ = Store(@, key, value),
                !.lru_list_ = SpliceFront(@, Deref(shard, it)),
                !.nodes = SpliceFront(@, it)]
    ELSE LET full == Cardinality(DOMAIN shard.cache_map_) >= shard.max_shard_size_
             mru_key == shard.lru_list_[1]
             map1 == IF full THEN Erase(shard.cache_map_, mru_key) ELSE shard.cache_map_
             iters1 == IF full THEN Erase(shard.iters, mru_key) ELSE shard.iters
             list1 == IF full THEN Tail(shard.lru_list_) ELSE shard.lru_list_
             nodes1 == IF full THEN Tail(shard.nodes) ELSE shard.nodes
             nodes2 == <<NewNode(nodes1)>> \o nodes1
         IN  [shard EXCEPT
                !.lru_list_ = <<key>> \o list1,
                !.nodes = nodes2,
                !.cache_map_ = Store(map1, key, value),
                !.iters = Store(iters1, key, nodes2[1])]

\* Put that stores, with a new key, the iterator of the last node of the list
ShardPut_HandleToBack(shard, key, value) ==
    IF key \in DOMAIN shard.cache_map_
    THEN LET it == shard.iters[key]
         IN  [shard EXCEPT
                !.cache_map_ = Store(@, key, value),
                !.lru_list_ = SpliceFront(@, Deref(shard, it)),
                !.nodes = SpliceFront(@, it)]
    ELSE LET full == Cardinality(DOMAIN shard.cache_map_) >= shard.max_shard_size_
             last == Len(shard.lru_list_)
             lru_key == shard.lru_list_[last]
             map1 == IF full THEN Erase(shard.cache_map_, lru_key) ELSE shard.cache_map_
             iters1 == IF full THEN Erase(shard.iters, lru_key) ELSE shard.iters
             list1 == IF full THEN SubSeq(shard.lru_list_, 1, last - 1) ELSE shard.lru_list_
             nodes1 == IF full THEN SubSeq(shard.nodes, 1, last - 1) ELSE shard.nodes
             nodes2 == <<NewNode(nodes1)>> \o nodes1
         IN  [shard EXCEPT
                !.lru_list_ = <<key>> \o list1,
                !.nodes = nodes2,
                !.cache_map_ = Store(map1, key, value),
                !.iters = Store(iters1, key, nodes2[Len(nodes2)])]

\* Put, under the shard lock: the shard afterwards.  A key found gets the value and
\* its node is spliced to the front through the stored iterator; a new key evicts
\* lru_list_.back() from a full shard, is pushed to the front and stored with
\* lru_list_.begin()
ShardPut(shard, key, value) ==
    IF key \in DOMAIN shard.cache_map_
    THEN LET it == shard.iters[key]
         IN  [shard EXCEPT
                !.cache_map_ = Store(@, key, value),
                !.lru_list_ = SpliceFront(@, Deref(shard, it)),
                !.nodes = SpliceFront(@, it)]
    ELSE LET full == Cardinality(DOMAIN shard.cache_map_) >= shard.max_shard_size_
             last == Len(shard.lru_list_)
             lru_key == shard.lru_list_[last]
             map1 == IF full THEN Erase(shard.cache_map_, lru_key) ELSE shard.cache_map_
             iters1 == IF full THEN Erase(shard.iters, lru_key) ELSE shard.iters
             list1 == IF full THEN SubSeq(shard.lru_list_, 1, last - 1) ELSE shard.lru_list_
             nodes1 == IF full THEN SubSeq(shard.nodes, 1, last - 1) ELSE shard.nodes
             nodes2 == <<NewNode(nodes1)>> \o nodes1
         IN  [shard EXCEPT
                !.lru_list_ = <<key>> \o list1,
                !.nodes = nodes2,
                !.cache_map_ = Store(map1, key, value),
                !.iters = Store(iters1, key, nodes2[1])]

\* FineLRUCache::Put: shards_ afterwards
Put(key, value) ==
    [shards_ EXCEPT ![getShardForKey(key)] = ShardPut(@, key, value)]

\* FineLRUCache::Get: the optional returned
GetValue(key) ==
    LET shard == shards_[getShardForKey(key)]
    IN  IF key \in DOMAIN shard.cache_map_ THEN <<shard.cache_map_[key]>> ELSE <<>>

\* Get that leaves the recency order alone
Get_NoRefresh(key) == shards_

\* FineLRUCache::Get: shards_ afterwards (a hit splices the node the stored iterator
\* designates to the front)
Get(key) ==
    LET shard == shards_[getShardForKey(key)]
    IN  IF key \in DOMAIN shard.cache_map_
        THEN [shards_ EXCEPT
                ![getShardForKey(key)].lru_list_ =
                    SpliceFront(@, Deref(shard, shard.iters[key])),
                ![getShardForKey(key)].nodes = SpliceFront(@, shard.iters[key])]
        ELSE shards_

\* Remove that reports a removal whether or not the key was there
RemoveResult_Always(key) == TRUE

\* FineLRUCache::Remove: the bool returned
RemoveResult(key) == key \in DOMAIN shards_[getShardForKey(key)].cache_map_

\* FineLRUCache::Remove: shards_ afterwards
Remove(key) ==
    LET shard == shards_[getShardForKey(key)]
    IN  IF key \in DOMAIN shard.cache_map_
        THEN [shards_ EXCEPT
                ![getShardForKey(key)].lru_list_ =
                    Without(@, Deref(shard, shard.iters[key])),
                ![getShardForKey(key)].nodes = Without(@, shard.iters[key]),
                ![getShardForKey(key)].cache_map_ = Erase(@, key),
                ![getShardForKey(key)].iters = Erase(@, key)]
        ELSE shards_

\* Clear that empties the recency list of a shard but not its map
ClearShard_ListOnly(i) ==
    [shards_ EXCEPT ![i].lru_list_ = <<>>, ![i].nodes = <<>>]

\* FineLRUCache::Clear, one iteration of its loop: shard i cleared under its lock
ClearShard(i) ==
    [shards_ EXCEPT ![i].cache_map_ = <<>>, ![i].iters = <<>>,
                    ![i].lru_list_ = <<>>, ![i].nodes = <<>>]

\* FineLRUCache::Size with no concurrent mutator
Size == Sum([i \in 1..Len(shards_) |-> Cardinality(DOMAIN shards_[i].cache_map_)],
            1..Len(shards_))

\* ========================================================== ConnectionPool

\* a PooledConnection object that does not exist (not constructed yet, or destroyed);
\* `moved` records that the object was the source of a move
NoHandle == [live |-> FALSE, connection_ |-> <<>>, pool_ |-> FALSE, moved |-> FALSE]

\* PooledConnection(conn, pool): the private constructor used by acquire
NewHandle(conn) == [live |-> TRUE, connection_ |-> conn, pool_ |-> TRUE, moved |-> FALSE]

\* condition_.wait given a predicate that is always true: acquire never blocks
WaitPredicate_Always == TRUE

\* the predicate of condition_.wait in acquire
WaitPredicate == idle_connections_ # <<>> \/ total_connections_ < max_size_

\* acquire with the creation test off by one (<= instead of <)
AcquireBranch_OffByOne ==
    IF idle_connections_ # <<>> THEN "idle"
    ELSE IF total_connections_ <= max_size_ THEN "create"
    ELSE "wait"

\* acquire preferring to create a connection over reusing an idle one
AcquireBranch_CreateFirst ==
    IF ~WaitPredicate THEN "wait"
    ELSE IF total_connections_ < max_size_ THEN "create"
    ELSE "idle"

\* acquire, under the lock: what it does next
AcquireBranch ==
    IF ~WaitPredicate THEN "wait"
    ELSE IF idle_connections_ # <<>> THEN "idle"
    ELSE IF total_connections_ < max_size_ THEN "create"
    ELSE "throw"

\* the test `pool_ && connection_` of the destructor and of move assignment
MustRelease(h) == h.pool_ /\ h.connection_ # <<>>

\* a move that copies the connection pointer instead of moving it out of the source
MovedFrom_KeepsConnection(h) == [h EXCEPT !.pool_ = FALSE, !.moved = TRUE]

\* the source object of a move, afterwards: its unique_ptr is null, its pool_ nullptr
MovedFrom(h) == [h EXCEPT !.connection_ = <<>>, !.pool_ = FALSE, !.moved = TRUE]

\* the object a move constructs or assigns to: it takes connection_ and pool_
MovedTo(h) == [live |-> TRUE, connection_ |-> h.connection_, pool_ |-> h.pool_,
               moved |-> h.moved]

\* release(conn) that drops the connection instead of queueing it
Released_Dropped(conn) == idle_connections_

\* release(conn), under the lock: the idle queue afterwards
Released(conn) == Append(idle_connections_, conn[1])

\* release waking every waiter (notify_all in place of notify_one)
WakeOne_All(w) == [u \in Threads |-> IF pc[u] = "waiting" THEN "acquire" ELSE pc[u]]

\* condition_.notify_one(): pc afterwards, w the thread woken (0: nobody was waiting)
WakeOne(w) == IF w = 0 THEN pc ELSE [pc EXCEPT ![w] = "acquire"]

\* a notification that reaches nobody
WakeAll_Nobody == pc

\* condition_.notify_all(): pc afterwards
WakeAll == [u \in Threads |-> IF pc[u] = "waiting" THEN "acquire" ELSE pc[u]]

\* the threads condition_.notify_one() may wake
Wakeable == IF \E u \in Threads : pc[u] = "waiting"
            THEN {u \in Threads : pc[u] = "waiting"} ELSE {0}

\* ConnectionPool::ConnectionPool(max_size, factory), nobody using it yet
PoolInit(max_size) ==
    /\ max_size_ = max_size
    /\ total_connections_ = 0
    /\ idle_connections_ = <<>>
    /\ created = 0
    /\ handle = [t \in Threads |-> [s \in Slots |-> NoHandle]]
    /\ pc = [t \in Threads |-> "idle"]
    /\ acquires = 0
    /\ arrival = <<>>
    /\ thrown = [t \in Threads |-> "none"]

\* a thread calls acquire(); the handle returned will be its object 1
CallAcquire(t) ==
    /\ pc[t] = "idle"
    /\ ~handle[t][1].live
    /\ acquires < MaxAcquires
    /\ acquires' = acquires + 1
    /\ pc' = [pc EXCEPT ![t] = "acquire"]
    /\ thrown' = [thrown EXCEPT ![t] = "none"]
    /\ UNCHANGED <<max_size_, total_connections_, idle_connections_, created, handle, arrival>>
    /\ UNCHANGED <<cacheVars, srvVars, clientVars, lockVars, countVars>>

\* acquire: the predicate is false, the thread blocks in condition_.wait
AcquireWait(t) ==
    /\ pc[t] = "acquire"
    /\ AcquireBranch = "wait"
    /\ pc' = [pc EXCEPT ![t] = "waiting"]
    /\ arrival' = IF t \in SeqToSet(arrival) THEN arrival ELSE Append(arrival, t)
    /\ UNCHANGED <<max_size_, total_connections_, idle_connections_, created, handle,
                   acquires, thrown>>
    /\ UNCHANGED <<cacheVars, srvVars, clientVars, lockVars, countVars>>

\* acquire: an idle connection is popped and returned wrapped
AcquireIdle(t, next) ==
    /\ pc[t] = "acquire"
    /\ AcquireBranch = "idle"
    /\ idle_connections_' = Tail(idle_connections_)
    /\ handle' = [handle EXCEPT ![t][1] = NewHandle(<<Head(idle_connections_)>>)]
    /\ pc' = [pc EXCEPT ![t] = next]
    /\ arrival' = Without(arrival, t)
    /\ UNCHANGED <<max_size_, total_connections_, created, acquires, thrown>>
    /\ UNCHANGED <<cacheVars, srvVars, clientVars, lockVars, countVars>>

\* acquire: total_connections_++ under the lock, then the factory runs unlocked
AcquireCreate(t) ==
    /\ pc[t] = "acquire"
    /\ AcquireBranch = "create"
    /\ total_connections_' = total_connections_ + 1
    /\ pc' = [pc EXCEPT ![t] = "factory"]
    /\ arrival' = Without(arrival, t)
    /\ UNCHANGED <<max_size_, idle_connections_, created, handle, acquires, thrown>>
    /\ UNCHANGED <<cacheVars, srvVars, clientVars, lockVars, countVars>>

\* factory_() returns a new connection, acquire returns it wrapped
FactoryOk(t, next) ==
    /\ pc[t] = "factory"
    /\ created' = created + 1
    /\ handle' = [handle EXCEPT ![t][1] = NewHandle(<<created + 1>>)]
    /\ pc' = [pc EXCEPT ![t] = next]
    /\ UNCHANGED <<max_size_, total_connections_, idle_connections_, acquires, arrival, thrown>>
    /\ UNCHANGED <<cacheVars, srvVars, clientVars, lockVars, countVars>>

\* factory_() returns an empty unique_ptr (the factory of main.cpp does so when
\* constructing the connection fails); acquire wraps and returns it
FactoryNull(t, next) ==
    /\ pc[t] = "factory"
    /\ handle' = [handle EXCEPT ![t][1] = NewHandle(<<>>)]
    /\ pc' = [pc EXCEPT ![t] = next]
    /\ UNCHANGED <<max_size_, total_connections_, idle_connections_, created, acquires,
                   arrival, thrown>>
    /\ UNCHANGED <<cacheVars, srvVars, clientVars, lockVars, countVars>>

\* factory_() throws: control enters the catch block of acquire
FactoryThrows(t) ==
    /\ pc[t] = "factory"
    /\ pc' = [pc EXCEPT ![t] = "lock_on_fail"]
    /\ UNCHANGED <<max_size_, total_connections_, idle_connections_, created, handle,
                   acquires, arrival, thrown>>
    /\ UNCHANGED <<cacheVars, srvVars, clientVars, lockVars, countVars>>

\* catch block: total_connections_-- under lock_on_fail
FailDecrement(t) ==
    /\ pc[t] = "lock_on_fail"
    /\ total_connections_' = total_connections_ - 1
    /\ pc' = [pc EXCEPT ![t] = "notify_all"]
    /\ UNCHANGED <<max_size_, idle_connections_, created, handle, acquires, arrival, thrown>>
    /\ UNCHANGED <<cacheVars, srvVars, clientVars, lockVars, countVars>>

\* catch block: condition_.notify_all(), then the exception is rethrown to the caller
FailNotifyAll(t, next) ==
    /\ pc[t] = "notify_all"
    /\ pc' = [WakeAll EXCEPT ![t] = next]
    /\ thrown' = [thrown EXCEPT ![t] = "factory_error"]
    /\ UNCHANGED <<max_size_, total_connections_, idle_connections_, created, handle,
                   acquires, arrival>>
    /\ UNCHANGED <<cacheVars, srvVars, clientVars, lockVars, countVars>>

\* condition_.wait may return without a notification; the predicate is evaluated again
SpuriousWake(t) ==
    /\ pc[t] = "waiting"
    /\ pc' = [pc EXCEPT ![t] = "acquire"]
    /\ UNCHANGED <<max_size_, total_connections_, idle_connections_, created, handle,
                   acquires, arrival, thrown>>
    /\ UNCHANGED <<cacheVars, srvVars, clientVars, lockVars, countVars>>

\* ~PooledConnection of object s: release(std::move(connection_)) if it owns one
Destroy(t, s, at, next) ==
    /\ pc[t] = at
    /\ handle[t][s].live
    /\ handle' = [handle EXCEPT ![t][s] = NoHandle]
    /\ IF MustRelease(handle[t][s])
       THEN /\ idle_connections_' = Released(handle[t][s].connection_)
            /\ pc' = [pc EXCEPT ![t] = "notify_one"]
       ELSE /\ pc' = [pc EXCEPT ![t] = next]
            /\ UNCHANGED idle_connections_
    /\ UNCHANGED <<max_size_, total_connections_, created, acquires, arrival, thrown>>
    /\ UNCHANGED <<cacheVars, srvVars, clientVars, lockVars, countVars>>

\* release: condition_.notify_one() after the lock is dropped
NotifyOne(t, next) ==
    /\ pc[t] = "notify_one"
    /\ \E w \in Wakeable : pc' = [WakeOne(w) EXCEPT ![t] = next]
    /\ UNCHANGED <<max_size_, total_connections_, idle_connections_, created, handle,
                   acquires, arrival, thrown>>
    /\ UNCHANGED <<cacheVars, srvVars, clientVars, lockVars, countVars>>

\* PooledConnection(PooledConnection&& other): object dst constructed from object src
MoveConstruct(t, src, dst) ==
    /\ pc[t] = "idle"
    /\ src # dst
    /\ handle[t][src].live
    /\ ~handle[t][dst].live
    /\ handle' = [handle EXCEPT ![t][dst] = MovedTo(handle[t][src]),
                                ![t][src] = MovedFrom(handle[t][src])]
    /\ UNCHANGED <<max_size_, total_connections_, idle_connections_, created, pc,
                   acquires, arrival, thrown>>
    /\ UNCHANGED <<cacheVars, srvVars, clientVars, lockVars, countVars>>

\* operator=(PooledConnection&& other): dst = std::move(src)
MoveAssign(t, src, dst) ==
    /\ pc[t] = "idle"
    /\ handle[t][src].live
    /\ handle[t][dst].live
    /\ IF src = dst
       THEN UNCHANGED <<handle, idle_connections_, pc>>
       ELSE /\ handle' = [handle EXCEPT ![t][dst] = MovedTo(handle[t][src]),
                                        ![t][src] = MovedFrom(handle[t][src])]
            /\ IF MustRelease(handle[t][dst])
               THEN /\ idle_connections_' = Released(handle[t][dst].connection_)
                    /\ pc' = [pc EXCEPT ![t] = "notify_one"]
               ELSE UNCHANGED <<idle_connections_, pc>>
    /\ UNCHANGED <<max_size_, total_connections_, created, acquires, arrival, thrown>>
    /\ UNCHANGED <<cacheVars, srvVars, clientVars, lockVars, countVars>>

\* get_idle_count() and get_total_count()
get_idle_count == Len(idle_connections_)
get_total_count == total_connections_

\* a thread that is in no cache call
NoCall ==
    [pc |-> "idle", op |-> "none", key |-> 0, value |-> 0, idx |-> 0,
     total_size |-> 0, ret |-> <<>>, seen |-> {}, mutated |-> FALSE]

\* every shard mutex is free and no thread is inside a cache call
NoCalls ==
    /\ mutex_ = [i \in 1..Len(shards_) |-> 0]
    /\ call = [t \in CacheThreads |-> NoCall]

\* no increment of totalGets or cacheHits is under way, none has been executed
NoCounting ==
    /\ tmp = [t \in Threads |-> 0]
    /\ counted = [gets |-> 0, hits |-> 0]

\* no load generator runs beside the pool, the cache or the server when they are
\* driven directly
NoClient ==
    /\ keep_running = FALSE
    /\ total_requests = 0
    /\ total_errors = 0
    /\ total_duration_micros = 0
    /\ loadgen = [pc |-> "none"]
    /\ worker = <<>>

\* ---- the pool used directly by NumThreads threads
\* a quiescent server beside the pool or the cache when they are driven directly
NoServer ==
    /\ impl = "none"
    /\ kv_table = <<>>
    /\ req = [t \in Threads |-> [op |-> "none"]]
    /\ opt_value = [t \in Threads |-> <<>>]
    /\ res = [t \in Threads |-> [status |-> -1, body |-> <<>>, sent |-> FALSE]]
    /\ totalGets = 0
    /\ cacheHits = 0
    /\ requests = 0
    /\ last_write = [k \in Keys |-> {<<>>}]
    /\ sequential = TRUE

PoolSpecInit ==
    /\ \E n \in 1..MaxPoolSize : PoolInit(n)
    /\ ctor_args = [max_size |-> 0, shard_count |-> 0]
    /\ ctor_result = "none"
    /\ num_shards_ = 0
    /\ shards_ = <<>>
    /\ clear_pos = 0
    /\ cache_ret = [op |-> "none"]
    /\ clear_late = {}
    /\ touched = <<>>
    /\ NoCalls
    /\ NoCounting
    /\ NoServer
    /\ NoClient

PoolNext ==
    \/ \E t \in Threads : CallAcquire(t)
    \/ \E t \in Threads : AcquireWait(t)
    \/ \E t \in Threads : AcquireIdle(t, "idle")
    \/ \E t \in Threads : AcquireCreate(t)
    \/ \E t \in Threads : FactoryOk(t, "idle")
    \/ \E t \in Threads : FactoryNull(t, "idle")
    \/ \E t \in Threads : FactoryThrows(t)
    \/ \E t \in Threads : FailDecrement(t)
    \/ \E t \in Threads : FailNotifyAll(t, "idle")
    \/ \E t \in Threads : SpuriousWake(t)
    \/ \E t \in Threads, s \in Slots : Destroy(t, s, "idle", "idle")
    \/ \E t \in Threads : NotifyOne(t, "idle")
    \/ \E t \in Threads, src \in Slots, dst \in Slots : MoveConstruct(t, src, dst)
    \/ \E t \in Threads, src \in Slots, dst \in Slots : MoveAssign(t, src, dst)

SpecPool == PoolSpecInit /\ [][PoolNext]_vars

\* ---- the pool under fair scheduling: every handle acquire returns is destroyed
PoolFairNext ==
    \/ \E t \in Threads : CallAcquire(t)
    \/ \E t \in Threads : AcquireWait(t)
    \/ \E t \in Threads : AcquireIdle(t, "idle")
    \/ \E t \in Threads : AcquireCreate(t)
    \/ \E t \in Threads : FactoryOk(t, "idle")
    \/ \E t \in Threads : FactoryNull(t, "idle")
    \/ \E t \in Threads : FactoryThrows(t)
    \/ \E t \in Threads : FailDecrement(t)
    \/ \E t \in Threads : FailNotifyAll(t, "idle")
    \/ \E t \in Threads : SpuriousWake(t)
    \/ \E t \in Threads : Destroy(t, 1, "idle", "idle")
    \/ \E t \in Threads : NotifyOne(t, "idle")

\* every thread goes on running: a thread that holds the lock in acquire decides, a
\* factory call returns or throws, the catch block and release run to their end, and
\* a live handle is destroyed
SpecPoolFair ==
    /\ PoolSpecInit
    /\ [][PoolFairNext]_vars
    /\ \A t \in Threads :
          /\ WF_vars(AcquireWait(t) \/ AcquireIdle(t, "idle") \/ AcquireCreate(t))
          /\ WF_vars(FactoryOk(t, "idle") \/ FactoryNull(t, "idle") \/ FactoryThrows(t))
          /\ WF_vars(FailDecrement(t))
          /\ WF_vars(FailNotifyAll(t, "idle"))
          /\ WF_vars(Destroy(t, 1, "idle", "idle"))
          /\ WF_vars(NotifyOne(t, "idle"))

\* ---- the cache driven directly: any sequence of Put, Get, Remove, Clear

\* the history `clear_late` after a call other than Clear: it is kept while a Clear
\* runs and forgotten by the first call after Clear has returned
LateKept == IF clear_pos > 0 THEN clear_late ELSE {}

\* the history `touched` after a call Put(key) or Get(key); ok: the call found or
\* stored the key
Touch(key, ok) ==
    [touched EXCEPT ![getShardForKey(key)] =
        <<[key |-> key, ok |-> ok]>> \o SelectSeq(@, LAMBDA r : r.ok /\ r.key # key)]

CacheInit ==
    /\ ctor_args \in [max_size : 0..MaxCacheSize, shard_count : 0..MaxShards]
    /\ LET c == Construct(ctor_args.max_size, ctor_args.shard_count)
       IN  /\ ctor_result = c.result
           /\ num_shards_ = c.num
           /\ shards_ = c.shards
    /\ clear_pos = 0
    /\ cache_ret = [op |-> "none"]
    /\ clear_late = {}
    /\ touched = [i \in 1..Len(shards_) |-> <<>>]
    /\ NoCalls
    /\ NoCounting
    /\ PoolInit(1)
    /\ NoServer
    /\ NoClient

CachePut(key, value) ==
    /\ ctor_result = "ok"
    /\ shards_' = Put(key, value)
    /\ cache_ret' = [op |-> "Put", key |-> key, value |-> value]
    /\ clear_late' = IF clear_pos > getShardForKey(key)
                     THEN clear_late \cup {key} ELSE LateKept
    /\ touched' = Touch(key, TRUE)
    /\ UNCHANGED <<ctor_args, ctor_result, num_shards_, clear_pos>>
    /\ UNCHANGED <<poolVars, srvVars, clientVars, lockVars, countVars>>

CacheGet(key) ==
    /\ ctor_result = "ok"
    /\ shards_' = Get(key)
    /\ cache_ret' = [op |-> "Get", key |-> key, value |-> GetValue(key)]
    /\ touched' = Touch(key, GetValue(key) # <<>>)
    /\ clear_late' = LateKept
    /\ UNCHANGED <<ctor_args, ctor_result, num_shards_, clear_pos>>
    /\ UNCHANGED <<poolVars, srvVars, clientVars, lockVars, countVars>>

CacheRemove(key) ==
    /\ ctor_result = "ok"
    /\ shards_' = Remove(key)
    /\ cache_ret' = [op |-> "Remove", key |-> key, value |-> RemoveResult(key)]
    /\ touched' = [touched EXCEPT ![getShardForKey(key)] = <<>>]
    /\ clear_late' = LateKept
    /\ UNCHANGED <<ctor_args, ctor_result, num_shards_, clear_pos>>
    /\ UNCHANGED <<poolVars, srvVars, clientVars, lockVars, countVars>>

\* Clear() is called: its loop is about to visit the first shard
CacheClearBegin ==
    /\ ctor_result = "ok"
    /\ clear_pos = 0
    /\ clear_pos' = 1
    /\ clear_late' = {}
    /\ UNCHANGED <<ctor_args, ctor_result, num_shards_, shards_, cache_ret, touched>>
    /\ UNCHANGED <<poolVars, srvVars, clientVars, lockVars, countVars>>

\* one iteration of Clear's loop; after the last shard Clear returns
CacheClearStep ==
    /\ clear_pos > 0
    /\ shards_' = ClearShard(clear_pos)
    /\ IF clear_pos = Len(shards_)
       THEN clear_pos' = 0 /\ cache_ret' = [op |-> "Clear"]
       ELSE clear_pos' = clear_pos + 1 /\ UNCHANGED cache_ret
    /\ touched' = [touched EXCEPT ![clear_pos] = <<>>]
    /\ UNCHANGED <<ctor_args, ctor_result, num_shards_, clear_late>>
    /\ UNCHANGED <<poolVars, srvVars, clientVars, lockVars, countVars>>

CacheNext ==
    \/ \E key \in Keys, value \in Values : CachePut(key, value)
    \/ \E key \in Keys : CacheGet(key)
    \/ \E key \in Keys : CacheRemove(key)
    \/ CacheClearBegin
    \/ CacheClearStep

SpecCache == CacheInit /\ [][CacheNext]_vars

\* ---- the cache called by NumCacheThreads threads, every lock_guard a step of its own

\* thread t is inside a cache call
InCall(t) == call[t].pc \in {"lock", "held", "unlock"}

\* a constructed cache no thread has called yet
LockInit == CacheInit /\ ctor_result = "ok"

\* thread t enters Put, Get, Remove, Clear or Size: getShardForKey, or the first
\* iteration of the loop over shards_; the next statement constructs the lock_guard
CallBegin(t, op, key, value) ==
    /\ ~InCall(t)
    /\ call' = [call EXCEPT ![t] =
                   [NoCall EXCEPT !.pc = "lock", !.op = op, !.key = key, !.value = value,
                                  !.idx = IF op \in {"Clear", "Size"} THEN 1 ELSE getShardForKey(key),
                                  !.seen = IF op = "Size" THEN {Size} ELSE {}]]
    /\ UNCHANGED <<mutex_, cacheVars, poolVars, srvVars, clientVars, countVars>>

\* a lock_guard that takes the mutex whether or not it is free
LockGuard_NoWait(t) ==
    /\ call[t].pc = "lock"
    /\ mutex_' = [mutex_ EXCEPT ![call[t].idx] = t]
    /\ call' = [call EXCEPT ![t].pc = "held"]
    /\ UNCHANGED <<cacheVars, poolVars, srvVars, clientVars, countVars>>

\* std::lock_guard<std::mutex> lock(shard.mutex_): blocks until the mutex is free
LockGuard(t) ==
    /\ call[t].pc = "lock"
    /\ mutex_[call[t].idx] = 0
    /\ mutex_' = [mutex_ EXCEPT ![call[t].idx] = t]
    /\ call' = [call EXCEPT ![t].pc = "held"]
    /\ UNCHANGED <<cacheVars, poolVars, srvVars, clientVars, countVars>>

\* Size that adds the capacity of the shard instead of the size of its map
SizeOfShard_Capacity(i) == shards_[i].max_shard_size_

\* shard->cache_map_.size()
SizeOfShard(i) == Cardinality(DOMAIN shards_[i].cache_map_)

\* the statements of the call between the lock_guard and the end of its scope
UnderLock(t) ==
    LET c == call[t]
    IN  /\ c.pc = "held"
        /\ shards_' = CASE c.op = "Put" -> Put(c.key, c.value)
                        [] c.op = "Get" -> Get(c.key)
                        [] c.op = "Remove" -> Remove(c.key)
                        [] c.op = "Clear" -> ClearShard(c.idx)
                        [] OTHER -> shards_
        /\ call' = [u \in CacheThreads |->
                      IF u = t
                      THEN [c EXCEPT !.pc = "unlock",
                                     !.total_size = IF c.op = "Size"
                                                    THEN @ + SizeOfShard(c.idx) ELSE @,
                                     !.ret = CASE c.op = "Get" -> <<GetValue(c.key)>>
                                               [] c.op = "Remove" -> <<RemoveResult(c.key)>>
                                               [] OTHER -> <<>>]
                      ELSE IF InCall(u) /\ call[u].op = "Size" /\ c.op \in {"Put", "Remove", "Clear"}
                      THEN [call[u] EXCEPT !.mutated = TRUE, !.seen = @ \cup {Size'}]
                      ELSE call[u]]
        /\ UNCHANGED <<ctor_args, ctor_result, num_shards_, clear_pos, cache_ret,
                       clear_late, touched, mutex_>>
        /\ UNCHANGED <<poolVars, srvVars, clientVars, countVars>>

\* the lock_guard goes out of scope: the mutex is released, and the call returns or
\* its loop goes on to the next shard
UnlockShard(t) ==
    LET c == call[t]
    IN  /\ c.pc = "unlock"
        /\ mutex_' = [mutex_ EXCEPT ![c.idx] = 0]
        /\ call' = IF c.op \in {"Clear", "Size"} /\ c.idx < Len(shards_)
                   THEN [call EXCEPT ![t].pc = "lock", ![t].idx = c.idx + 1]
                   ELSE [call EXCEPT ![t] =
                            [NoCall EXCEPT !.pc = "done", !.op = c.op,
                                           !.ret = IF c.op = "Size"
                                                   THEN <<c.total_size>> ELSE c.ret,
                                           !.seen = c.seen \cap {c.total_size},
                                           !.mutated = c.mutated]]
        /\ UNCHANGED <<cacheVars, poolVars, srvVars, clientVars, countVars>>

LockNext ==
    \E t \in CacheThreads :
        \/ \E key \in Keys : CallBegin(t, "Put", key, 1)
        \/ \E key \in Keys : CallBegin(t, "Get", key, 0)
        \/ \E key \in Keys : CallBegin(t, "Remove", key, 0)
        \/ CallBegin(t, "Clear", 0, 0)
        \/ CallBegin(t, "Size", 0, 0)
        \/ LockGuard(t)
        \/ UnderLock(t)
        \/ UnlockShard(t)

SpecCacheLocks == LockInit /\ [][LockNext]_vars

\* the cache with the most shards the constructor arguments give
LockFairInit ==
    LockInit /\ ctor_args = [max_size |-> MaxCacheSize, shard_count |-> MaxShards]

\* every thread goes on running, and a thread blocked on a mutex that is released
\* again and again gets it in the end
SpecCacheLocksFair ==
    /\ LockFairInit
    /\ [][LockNext]_vars
    /\ \A t \in CacheThreads :
          /\ WF_vars(UnderLock(t))
          /\ WF_vars(UnlockShard(t))
          /\ SF_vars(LockGuard(t))

\* ============================================================== KvDatabase

\* KvDatabase::getValueForKey: the optional returned
getValueForKey(key) == IF key \in DOMAIN kv_table THEN <<kv_table[key]>> ELSE <<>>

\* KvDatabase::putKeyValue (insert ... on conflict do update): the table afterwards
putKeyValue(key, value) ==
    [k \in (DOMAIN kv_table) \cup {key} |-> IF k = key THEN value ELSE kv_table[k]]

\* KvDatabase::deleteKeyValue: the table afterwards
deleteKeyValue(key) == [k \in (DOMAIN kv_table) \ {key} |-> kv_table[k]]

\* ===================================================== KvServer / KvServerCw
\* pc of a handler thread: "idle"/"done" (no request), "probe" (before cache.Get),
\* "acquire".."factory" (inside connPool->acquire()), "have_conn" (connection held),
\* "fetched" (after getValueForKey), "invalidate" (KvServerCw, before cache.Remove),
\* "scope_exit" (the PooledConnection is about to be destroyed), "notify_one",
\* "return" (the handler returns).

\* the server and its collaborators as main() sets them up, for handler class c:
\* an empty table (Bootstrap), a pool of as many connections as worker threads, an
\* empty cache
ServerInit(c) ==
    /\ impl = c
    /\ kv_table = <<>>
    /\ req = [t \in Threads |-> [op |-> "none"]]
    /\ opt_value = [t \in Threads |-> <<>>]
    /\ res = [t \in Threads |-> [status |-> -1, body |-> <<>>, sent |-> FALSE]]
    /\ totalGets = 0
    /\ cacheHits = 0
    /\ requests = 0
    /\ last_write = [k \in Keys |-> {<<>>}]
    /\ sequential = TRUE
    /\ PoolInit(NumWorkers)
    /\ ctor_args = [max_size |-> MaxCacheSize, shard_count |-> MaxCacheSize]
    /\ LET c0 == Construct(MaxCacheSize, MaxCacheSize)
       IN  /\ ctor_result = c0.result
           /\ num_shards_ = c0.num
           /\ shards_ = c0.shards
    /\ clear_pos = 0
    /\ cache_ret = [op |-> "none"]
    /\ clear_late = {}
    /\ touched = <<>>
    /\ NoCalls
    /\ NoCounting
    /\ NoClient

\* thread t is handling a request whose response has not been sent
InFlight(t) == req[t].op # "none" /\ ~res[t].sent

IsWrite(r) == r.op \in {"PUT", "DELETE"}

\* last_write once the response of thread t's request has been sent with this status
Answered(t, status) ==
    IF IsWrite(req[t]) /\ status = 200 /\ req[t].clean
    THEN [last_write EXCEPT ![req[t].key] =
             {IF req[t].op = "PUT" THEN <<req[t].value>> ELSE <<>>}]
    ELSE last_write

\* a worker thread takes the next request off the queue
Receive(t) ==
    /\ pc[t] \in {"idle", "done"}
    /\ requests < MaxRequests
    /\ requests' = requests + 1
    /\ sequential' = (sequential /\ ~\E u \in Threads \ {t} : InFlight(u))
    /\ res' = [res EXCEPT ![t] = [status |-> -1, body |-> <<>>, sent |-> FALSE]]
    /\ opt_value' = [opt_value EXCEPT ![t] = <<>>]

\* GetKv entered: the key is parsed, totalGets++
GetBegin(t, key) ==
    /\ Receive(t)
    /\ req' = [req EXCEPT ![t] = [op |-> "GET", key |-> key, value |-> 0, clean |-> TRUE,
                                  no |-> requests + 1, expect |-> last_write[key]]]
    /\ totalGets' = totalGets + 1
    /\ pc' = [pc EXCEPT ![t] = "probe"]
    /\ UNCHANGED <<impl, kv_table, cacheHits, last_write>>
    /\ UNCHANGED <<max_size_, total_connections_, idle_connections_, created, handle,
                   acquires, arrival, thrown>>
    /\ UNCHANGED <<cacheVars, clientVars, lockVars, countVars>>

\* a write request (op is "PUT" or "DELETE") on key is entered; from here on what the
\* store holds for key is undetermined until a write that ran alone has answered
WriteBegin(t, op, key, value) ==
    /\ Receive(t)
    /\ req' = [u \in Threads |->
                 IF u = t
                 THEN [op |-> op, key |-> key, value |-> value, no |-> requests + 1,
                       clean |-> ~\E w \in Threads \ {t} :
                                     InFlight(w) /\ IsWrite(req[w]) /\ req[w].key = key,
                       expect |-> Optionals]
                 ELSE IF InFlight(u) /\ req[u].key = key
                 THEN [req[u] EXCEPT !.clean = FALSE, !.expect = Optionals]
                 ELSE req[u]]
    /\ last_write' = [last_write EXCEPT ![key] = Optionals]
    /\ UNCHANGED <<impl, kv_table, totalGets, cacheHits>>
    /\ UNCHANGED <<max_size_, total_connections_, idle_connections_, created, handle,
                   acquires, arrival, thrown>>
    /\ UNCHANGED <<cacheVars, clientVars, lockVars, countVars>>

\* PutKv entered: the key is parsed and the body read; next is connPool->acquire()
PutBegin(t, key, value) ==
    /\ WriteBegin(t, "PUT", key, value)
    /\ pc' = [pc EXCEPT ![t] = "acquire"]

\* DeleteKv entered; next is connPool->acquire()
DeleteBegin(t, key) ==
    /\ WriteBegin(t, "DELETE", key, 0)
    /\ pc' = [pc EXCEPT ![t] = "acquire"]

\* GetKv counting every probe as a hit
GetProbe_CountsMisses(t) ==
    /\ pc[t] = "probe"
    /\ shards_' = Get(req[t].key)
    /\ cacheHits' = cacheHits + 1
    /\ IF GetValue(req[t].key) # <<>>
       THEN /\ res' = [res EXCEPT ![t] = [status |-> 200, body |-> GetValue(req[t].key),
                                          sent |-> TRUE]]
            /\ pc' = [pc EXCEPT ![t] = "done"]
       ELSE /\ pc' = [pc EXCEPT ![t] = "acquire"]
            /\ UNCHANGED res
    /\ UNCHANGED <<impl, kv_table, req, opt_value, totalGets, requests, last_write, sequential>>
    /\ UNCHANGED <<max_size_, total_connections_, idle_connections_, created, handle,
                   acquires, arrival, thrown>>
    /\ UNCHANGED <<ctor_args, ctor_result, num_shards_, clear_pos, cache_ret, clear_late,
                   touched, clientVars, lockVars, countVars>>

\* GetKv: cache.Get(key); a hit is answered 200 at once, cacheHits++
GetProbe(t) ==
    /\ pc[t] = "probe"
    /\ shards_' = Get(req[t].key)
    /\ IF GetValue(req[t].key) # <<>>
       THEN /\ cacheHits' = cacheHits + 1
            /\ res' = [res EXCEPT ![t] = [status |-> 200, body |-> GetValue(req[t].key),
                                          sent |-> TRUE]]
            /\ pc' = [pc EXCEPT ![t] = "done"]
       ELSE /\ pc' = [pc EXCEPT ![t] = "acquire"]
            /\ UNCHANGED <<cacheHits, res>>
    /\ UNCHANGED <<impl, kv_table, req, opt_value, totalGets, requests, last_write, sequential>>
    /\ UNCHANGED <<max_size_, total_connections_, idle_connections_, created, handle,
                   acquires, arrival, thrown>>
    /\ UNCHANGED <<ctor_args, ctor_result, num_shards_, clear_pos, cache_ret, clear_late,
                   touched, clientVars, lockVars, countVars>>

\* GetKv: database->getValueForKey(key)
GetSelect(t) ==
    /\ pc[t] = "have_conn"
    /\ handle[t][1].connection_ # <<>>
    /\ req[t].op = "GET"
    /\ opt_value' = [opt_value EXCEPT ![t] = getValueForKey(req[t].key)]
    /\ pc' = [pc EXCEPT ![t] = "fetched"]
    /\ UNCHANGED <<impl, kv_table, req, res, totalGets, cacheHits, requests, last_write,
                   sequential>>
    /\ UNCHANGED <<max_size_, total_connections_, idle_connections_, created, handle,
                   acquires, arrival, thrown>>
    /\ UNCHANGED <<cacheVars, clientVars, lockVars, countVars>>

\* GetKv answering from the store without populating the cache
GetFinish_NoPopulate(t) ==
    /\ pc[t] = "fetched"
    /\ res' = [res EXCEPT ![t] = [status |-> IF opt_value[t] # <<>> THEN 200 ELSE 404,
                                  body |-> opt_value[t], sent |-> impl = "KvServerCw"]]
    /\ pc' = [pc EXCEPT ![t] = "scope_exit"]
    /\ UNCHANGED <<impl, kv_table, req, opt_value, totalGets, cacheHits, requests,
                   last_write, sequential>>
    /\ UNCHANGED <<max_size_, total_connections_, idle_connections_, created, handle,
                   acquires, arrival, thrown>>
    /\ UNCHANGED <<cacheVars, clientVars, lockVars, countVars>>

\* GetKv: a value found is put into the cache and answered 200, otherwise 404;
\* KvServerCw sends the response here, KvServer when the handler has returned
GetFinish(t) ==
    /\ pc[t] = "fetched"
    /\ IF opt_value[t] # <<>>
       THEN /\ shards_' = Put(req[t].key, opt_value[t][1])
            /\ res' = [res EXCEPT ![t] = [status |-> 200, body |-> opt_value[t],
                                          sent |-> impl = "KvServerCw"]]
       ELSE /\ res' = [res EXCEPT ![t] = [status |-> 404, body |-> <<>>,
                                          sent |-> impl = "KvServerCw"]]
            /\ UNCHANGED shards_
    /\ pc' = [pc EXCEPT ![t] = "scope_exit"]
    /\ UNCHANGED <<impl, kv_table, req, opt_value, totalGets, cacheHits, requests,
                   last_write, sequential>>
    /\ UNCHANGED <<max_size_, total_connections_, idle_connections_, created, handle,
                   acquires, arrival, thrown>>
    /\ UNCHANGED <<ctor_args, ctor_result, num_shards_, clear_pos, cache_ret, clear_late,
                   touched, clientVars, lockVars, countVars>>

\* the store operation of a write is done: KvServer sets status 200 and leaves the
\* scope, KvServerCw goes on to cache.Remove
AfterStoreWrite(t) ==
    /\ IF impl = "KvServerCw"
       THEN /\ pc' = [pc EXCEPT ![t] = "invalidate"]
            /\ UNCHANGED res
       ELSE /\ pc' = [pc EXCEPT ![t] = "scope_exit"]
            /\ res' = [res EXCEPT ![t] = [status |-> 200, body |-> <<>>, sent |-> FALSE]]
    /\ UNCHANGED <<impl, opt_value, totalGets, cacheHits, requests, last_write,
                   sequential>>
    /\ UNCHANGED <<max_size_, total_connections_, idle_connections_, created, handle,
                   acquires, arrival, thrown>>
    /\ UNCHANGED <<cacheVars, clientVars, lockVars, countVars>>

\* PutKv: database->putKeyValue(key, value)
PutUpsert(t) ==
    /\ pc[t] = "have_conn"
    /\ handle[t][1].connection_ # <<>>
    /\ req[t].op = "PUT"
    /\ kv_table' = putKeyValue(req[t].key, req[t].value)
    /\ UNCHANGED req
    /\ AfterStoreWrite(t)

\* DeleteKv: database->deleteKeyValue(key)
DeleteRow(t) ==
    /\ pc[t] = "have_conn"
    /\ handle[t][1].connection_ # <<>>
    /\ req[t].op = "DELETE"
    /\ kv_table' = deleteKeyValue(req[t].key)
    /\ UNCHANGED req
    /\ AfterStoreWrite(t)

\* KvServerCw::PutKv writing the new value into the cache instead of removing the key
CwInvalidate_WriteThrough(t) ==
    /\ pc[t] = "invalidate"
    /\ shards_' = IF req[t].op = "PUT" THEN Put(req[t].key, req[t].value)
                                       ELSE Remove(req[t].key)
    /\ res' = [res EXCEPT ![t] = [status |-> 200, body |-> <<>>, sent |-> TRUE]]
    /\ last_write' = Answered(t, 200)
    /\ pc' = [pc EXCEPT ![t] = "scope_exit"]
    /\ UNCHANGED <<impl, kv_table, req, opt_value, totalGets, cacheHits, requests, sequential>>
    /\ UNCHANGED <<max_size_, total_connections_, idle_connections_, created, handle,
                   acquires, arrival, thrown>>
    /\ UNCHANGED <<ctor_args, ctor_result, num_shards_, clear_pos, cache_ret, clear_late,
                   touched, clientVars, lockVars, countVars>>

\* KvServerCw::PutKv / DeleteKv: cache.Remove(key), then send_text(200)
CwInvalidate(t) ==
    /\ pc[t] = "invalidate"
    /\ shards_' = Remove(req[t].key)
    /\ res' = [res EXCEPT ![t] = [status |-> 200, body |-> <<>>, sent |-> TRUE]]
    /\ last_write' = Answered(t, 200)
    /\ pc' = [pc EXCEPT ![t] = "scope_exit"]
    /\ UNCHANGED <<impl, kv_table, req, opt_value, totalGets, cacheHits, requests, sequential>>
    /\ UNCHANGED <<max_size_, total_connections_, idle_connections_, created, handle,
                   acquires, arrival, thrown>>
    /\ UNCHANGED <<ctor_args, ctor_result, num_shards_, clear_pos, cache_ret, clear_late,
                   touched, clientVars, lockVars, countVars>>

\* the handler returns; KvServer's response (res) is sent by the HTTP library now
HandlerReturn(t) ==
    /\ pc[t] = "return"
    /\ pc' = [pc EXCEPT ![t] = "done"]
    /\ res' = [res EXCEPT ![t].sent = TRUE]
    /\ last_write' = IF res[t].sent THEN last_write ELSE Answered(t, res[t].status)
    /\ UNCHANGED <<impl, kv_table, req, opt_value, totalGets, cacheHits, requests, sequential>>
    /\ UNCHANGED <<max_size_, total_connections_, idle_connections_, created, handle,
                   acquires, arrival, thrown>>
    /\ UNCHANGED <<cacheVars, clientVars, lockVars, countVars>>

\* the handlers both classes share
HandlerNext ==
    \/ \E t \in Workers, key \in ReqKeys : GetBegin(t, key)
    \/ \E t \in Workers : GetProbe(t)
    \/ \E t \in Workers : GetSelect(t)
    \/ \E t \in Workers : GetFinish(t)
    \/ \E t \in Workers, key \in ReqKeys, value \in Values : PutBegin(t, key, value)
    \/ \E t \in Workers : PutUpsert(t)
    \/ \E t \in Workers, key \in ReqKeys : DeleteBegin(t, key)
    \/ \E t \in Workers : DeleteRow(t)
    \/ \E t \in Workers : AcquireIdle(t, "have_conn")
    \/ \E t \in Workers : AcquireCreate(t)
    \/ \E t \in Workers : FactoryOk(t, "have_conn")
    \/ \E t \in Workers : Destroy(t, 1, "scope_exit", "return")
    \/ \E t \in Workers : NotifyOne(t, "return")
    \/ \E t \in Workers : HandlerReturn(t)

KvServerCwNext ==
    \/ HandlerNext
    \/ \E t \in Workers : CwInvalidate(t)

\* KvServer (kv_server.cpp), the class main() runs
SpecKvServer == ServerInit("KvServer") /\ [][HandlerNext]_vars

\* KvServerCw (kv_server_cw.cpp)
SpecKvServerCw == ServerInit("KvServerCw") /\ [][KvServerCwNext]_vars

\* ============================================== requests that fail on their way
\* One worker thread serves requests one at a time; the key segment of the path may
\* be malformed, the factory and the store may fail.  pc in addition: "route" (the
\* request is matched against the routes), "parse" (before std::stoi),
\* "acquire_threw" (acquire() has rethrown), "escaped" (an exception left the
\* handler), "crashed" (the process died).  req[t].store_failed (history) records
\* that the statement of the request's store operation failed.

\* what the key segment of the request path is: digits that fit an int, digits that
\* do not fit an int, or not digits at all
Paths == {"int", "overflow", "text"}

Methods == {"GET", "PUT", "DELETE"}

FaultWorkers == 1..NumFaultWorkers

\* where a handler continues when acquire() has returned: KvServer::DeleteKv acquires
\* before it parses the key
AfterAcquire(t) ==
    IF impl = "KvServer" /\ req[t].op = "DELETE" THEN "parse" ELSE "have_conn"

\* the handler object of thread t holds a connection it can call
HasConnection(t) == handle[t][1].live /\ handle[t][1].connection_ # <<>>

\* a std::exception is thrown inside the handler of thread t. KvServer catches it and
\* sets status (400 for invalid_argument, else 500), its PooledConnection, if any, is
\* destroyed on leaving the try block; KvServerCw has no handler for it
Throw(t, e) ==
    IF impl = "KvServer"
    THEN /\ res' = [res EXCEPT ![t] = [status |-> IF e = "invalid_argument" THEN 400 ELSE 500,
                                       body |-> <<>>, sent |-> FALSE]]
         /\ pc' = [pc EXCEPT ![t] = IF handle[t][1].live THEN "scope_exit" ELSE "return"]
    ELSE /\ pc' = [pc EXCEPT ![t] = "escaped"]
         /\ UNCHANGED res

\* a request arrives at worker t
Dispatch(t, method, path, key, value) ==
    /\ Receive(t)
    /\ req' = [req EXCEPT ![t] = [op |-> method, key |-> key,
                                  value |-> IF method = "PUT" THEN value ELSE 0,
                                  clean |-> TRUE, no |-> requests + 1,
                                  expect |-> Optionals, path |-> path,
                                  store_failed |-> FALSE]]
    /\ pc' = [pc EXCEPT ![t] = "route"]
    /\ UNCHANGED <<impl, kv_table, totalGets, cacheHits, last_write>>
    /\ UNCHANGED <<max_size_, total_connections_, idle_connections_, created, handle,
                   acquires, arrival, thrown>>
    /\ UNCHANGED <<cacheVars, clientVars, lockVars, countVars>>

\* the path is matched against the route pattern (\d+): a segment that is not digits
\* reaches no handler and is answered 404
RouteMatch(t) ==
    /\ pc[t] = "route"
    /\ IF req[t].path = "text"
       THEN /\ res' = [res EXCEPT ![t] = [status |-> 404, body |-> <<>>, sent |-> TRUE]]
            /\ pc' = [pc EXCEPT ![t] = "done"]
       ELSE /\ pc' = [pc EXCEPT ![t] = IF impl = "KvServer" /\ req[t].op = "DELETE"
                                       THEN "acquire" ELSE "parse"]
            /\ UNCHANGED res
    /\ UNCHANGED <<impl, kv_table, req, opt_value, totalGets, cacheHits, requests,
                   last_write, sequential>>
    /\ UNCHANGED <<max_size_, total_connections_, idle_connections_, created, handle,
                   acquires, arrival, thrown>>
    /\ UNCHANGED <<cacheVars, clientVars, lockVars, countVars>>

\* std::stoi on the key segment: out_of_range for digits that do not fit an int,
\* invalid_argument for a segment that is not digits
ParseKey(t) ==
    /\ pc[t] = "parse"
    /\ IF req[t].path = "int"
       THEN /\ pc' = [pc EXCEPT ![t] =
                        IF req[t].op = "GET" THEN "probe"
                        ELSE IF handle[t][1].live THEN "have_conn" ELSE "acquire"]
            /\ totalGets' = IF req[t].op = "GET" THEN totalGets + 1 ELSE totalGets
            /\ UNCHANGED res
       ELSE /\ Throw(t, IF req[t].path = "overflow" THEN "out_of_range"
                        ELSE "invalid_argument")
            /\ UNCHANGED totalGets
    /\ UNCHANGED <<impl, kv_table, req, opt_value, cacheHits, requests, last_write,
                   sequential>>
    /\ UNCHANGED <<max_size_, total_connections_, idle_connections_, created, handle,
                   acquires, arrival, thrown>>
    /\ UNCHANGED <<cacheVars, clientVars, lockVars, countVars>>

\* acquire() has rethrown the exception of the factory into the handler
AcquireThrew(t) ==
    /\ pc[t] = "acquire_threw"
    /\ Throw(t, "factory_error")
    /\ UNCHANGED <<impl, kv_table, req, opt_value, totalGets, cacheHits, requests,
                   last_write, sequential>>
    /\ UNCHANGED <<max_size_, total_connections_, idle_connections_, created, handle,
                   acquires, arrival, thrown>>
    /\ UNCHANGED <<cacheVars, clientVars, lockVars, countVars>>

\* database->...: operator-> of a PooledConnection whose connection_ is null returns
\* nullptr, and the member call through it has no defined behaviour: the process
\* dies, or the call misbehaves like a failing store call
NullDeref(t) ==
    /\ pc[t] = "have_conn"
    /\ handle[t][1].live
    /\ handle[t][1].connection_ = <<>>
    /\ \/ pc' = [pc EXCEPT ![t] = "crashed"] /\ UNCHANGED res
       \/ Throw(t, "store_error")
    /\ UNCHANGED <<impl, kv_table, req, opt_value, totalGets, cacheHits, requests,
                   last_write, sequential>>
    /\ UNCHANGED <<max_size_, total_connections_, idle_connections_, created, handle,
                   acquires, arrival, thrown>>
    /\ UNCHANGED <<cacheVars, clientVars, lockVars, countVars>>

\* getValueForKey when the statement fails: the exception is caught inside and
\* nullopt returned
GetSelectFails(t) ==
    /\ pc[t] = "have_conn"
    /\ HasConnection(t)
    /\ req[t].op = "GET"
    /\ opt_value' = [opt_value EXCEPT ![t] = <<>>]
    /\ req' = [req EXCEPT ![t].store_failed = TRUE]
    /\ pc' = [pc EXCEPT ![t] = "fetched"]
    /\ UNCHANGED <<impl, kv_table, res, totalGets, cacheHits, requests, last_write,
                   sequential>>
    /\ UNCHANGED <<max_size_, total_connections_, idle_connections_, created, handle,
                   acquires, arrival, thrown>>
    /\ UNCHANGED <<cacheVars, clientVars, lockVars, countVars>>

\* putKeyValue when the statement fails: the exception leaves putKeyValue
PutUpsertThrows(t) ==
    /\ pc[t] = "have_conn"
    /\ HasConnection(t)
    /\ req[t].op = "PUT"
    /\ Throw(t, "store_error")
    /\ req' = [req EXCEPT ![t].store_failed = TRUE]
    /\ UNCHANGED <<impl, kv_table, opt_value, totalGets, cacheHits, requests,
                   last_write, sequential>>
    /\ UNCHANGED <<max_size_, total_connections_, idle_connections_, created, handle,
                   acquires, arrival, thrown>>
    /\ UNCHANGED <<cacheVars, clientVars, lockVars, countVars>>

\* deleteKeyValue when the statement fails: the exception is caught inside and the
\* call returns normally, the row is still there
DeleteRowFails(t) ==
    /\ pc[t] = "have_conn"
    /\ HasConnection(t)
    /\ req[t].op = "DELETE"
    /\ req' = [req EXCEPT ![t].store_failed = TRUE]
    /\ UNCHANGED kv_table
    /\ AfterStoreWrite(t)

FaultInit == \E c \in {"KvServer", "KvServerCw"} : ServerInit(c)

FaultNext ==
    \/ \E t \in FaultWorkers, method \in Methods, path \in Paths, value \in Values :
          \E key \in (IF path = "int" THEN ReqKeys ELSE {0}) :
              Dispatch(t, method, path, key, value)
    \/ \E t \in FaultWorkers : RouteMatch(t)
    \/ \E t \in FaultWorkers : ParseKey(t)
    \/ \E t \in FaultWorkers : GetProbe(t)
    \/ \E t \in FaultWorkers : AcquireWait(t)
    \/ \E t \in FaultWorkers : SpuriousWake(t)
    \/ \E t \in FaultWorkers : AcquireIdle(t, AfterAcquire(t))
    \/ \E t \in FaultWorkers : AcquireCreate(t)
    \/ \E t \in FaultWorkers : FactoryOk(t, AfterAcquire(t))
    \/ \E t \in FaultWorkers : FactoryNull(t, AfterAcquire(t))
    \/ \E t \in FaultWorkers : FactoryThrows(t)
    \/ \E t \in FaultWorkers : FailDecrement(t)
    \/ \E t \in FaultWorkers : FailNotifyAll(t, "acquire_threw")
    \/ \E t \in FaultWorkers : AcquireThrew(t)
    \/ \E t \in FaultWorkers : NullDeref(t)
    \/ \E t \in FaultWorkers : GetSelect(t)
    \/ \E t \in FaultWorkers : GetSelectFails(t)
    \/ \E t \in FaultWorkers : GetFinish(t)
    \/ \E t \in FaultWorkers : PutUpsert(t)
    \/ \E t \in FaultWorkers : PutUpsertThrows(t)
    \/ \E t \in FaultWorkers : DeleteRow(t)
    \/ \E t \in FaultWorkers : DeleteRowFails(t)
    \/ \E t \in FaultWorkers : CwInvalidate(t)
    \/ \E t \in FaultWorkers : Destroy(t, 1, "scope_exit", "return")
    \/ \E t \in FaultWorkers : NotifyOne(t, "return")
    \/ \E t \in FaultWorkers : HandlerReturn(t)

\* either handler class, with malformed keys, failing factories and a failing store
SpecKvFaults == FaultInit /\ [][FaultNext]_vars

\* ----------------------------------------- concurrent PUTs and GETs of one key
\* The workers of either handler class serve PUT and GET requests on the one key
\* RaceKey and nothing else, so every write in a behaviour is a PUT of that key.

RaceKey == 0

PutRaceNext ==
    \/ \E t \in Workers : GetBegin(t, RaceKey)
    \/ \E t \in Workers : GetProbe(t)
    \/ \E t \in Workers : GetSelect(t)
    \/ \E t \in Workers : GetFinish(t)
    \/ \E t \in Workers, value \in Values : PutBegin(t, RaceKey, value)
    \/ \E t \in Workers : PutUpsert(t)
    \/ \E t \in Workers : CwInvalidate(t)
    \/ \E t \in Workers : AcquireIdle(t, "have_conn")
    \/ \E t \in Workers : AcquireCreate(t)
    \/ \E t \in Workers : FactoryOk(t, "have_conn")
    \/ \E t \in Workers : Destroy(t, 1, "scope_exit", "return")
    \/ \E t \in Workers : NotifyOne(t, "return")
    \/ \E t \in Workers : HandlerReturn(t)

SpecKvPutRace == FaultInit /\ [][PutRaceNext]_vars

\* --------------------------------------------- the pool smaller than the thread count
\* The workers of either handler class serve GET, PUT and DELETE requests on the key
\* RaceKey through a pool of 1..NumWorkers connections whose factory always yields a
\* connection (main and the tester create the pool with max_size = thread count); a
\* handler that finds no connection blocks in acquire() until a release wakes it.

SizedInit ==
    /\ impl \in {"KvServer", "KvServerCw"}
    /\ kv_table = <<>>
    /\ req = [t \in Threads |-> [op |-> "none"]]
    /\ opt_value = [t \in Threads |-> <<>>]
    /\ res = [t \in Threads |-> [status |-> -1, body |-> <<>>, sent |-> FALSE]]
    /\ totalGets = 0
    /\ cacheHits = 0
    /\ requests = 0
    /\ last_write = [k \in Keys |-> {<<>>}]
    /\ sequential = TRUE
    /\ \E max_size \in 1..NumWorkers : PoolInit(max_size)
    /\ ctor_args = [max_size |-> MaxCacheSize, shard_count |-> MaxCacheSize]
    /\ LET c0 == Construct(MaxCacheSize, MaxCacheSize)
       IN  /\ ctor_result = c0.result
           /\ num_shards_ = c0.num
           /\ shards_ = c0.shards
    /\ clear_pos = 0
    /\ cache_ret = [op |-> "none"]
    /\ clear_late = {}
    /\ touched = <<>>
    /\ NoCalls
    /\ NoCounting
    /\ NoClient

SizedNext ==
    \/ PutRaceNext
    \/ \E t \in Workers : DeleteBegin(t, RaceKey)
    \/ \E t \in Workers : DeleteRow(t)
    \/ \E t \in Workers : AcquireWait(t)
    \/ \E t \in Workers : SpuriousWake(t)

SpecKvPoolSized == SizedInit /\ [][SizedNext]_vars

\* ================================ the counters of the handlers, increments taken apart
\* totalGets and cacheHits are plain integers written by every handler thread with no
\* lock held, so an increment is a read of the counter, then a write of the value read
\* plus one, and the steps of other threads may fall between the two.  The workers
\* serve GET requests; the store holds a row for key 0.  pc in addition: "count_get"
\* (before totalGets is read), "store_get" (read, not yet written), "count_hit",
\* "store_hit" (the same for cacheHits).

CountersInit ==
    /\ impl \in {"KvServer", "KvServerCw"}
    /\ kv_table = [k \in {0} |-> 1]
    /\ req = [t \in Threads |-> [op |-> "none"]]
    /\ opt_value = [t \in Threads |-> <<>>]
    /\ res = [t \in Threads |-> [status |-> -1, body |-> <<>>, sent |-> FALSE]]
    /\ totalGets = 0
    /\ cacheHits = 0
    /\ requests = 0
    /\ last_write = [k \in Keys |-> IF k = 0 THEN {<<1>>} ELSE {<<>>}]
    /\ sequential = TRUE
    /\ PoolInit(NumWorkers)
    /\ ctor_args = [max_size |-> MaxCacheSize, shard_count |-> MaxCacheSize]
    /\ LET c0 == Construct(MaxCacheSize, MaxCacheSize)
       IN  /\ ctor_result = c0.result
           /\ num_shards_ = c0.num
           /\ shards_ = c0.shards
    /\ clear_pos = 0
    /\ cache_ret = [op |-> "none"]
    /\ clear_late = {}
    /\ touched = <<>>
    /\ NoCalls
    /\ NoCounting
    /\ NoClient

\* GetKv entered, the key parsed; next is totalGets++
GetKvEnter(t, key) ==
    /\ Receive(t)
    /\ req' = [req EXCEPT ![t] = [op |-> "GET", key |-> key, value |-> 0, clean |-> TRUE,
                                  no |-> requests + 1, expect |-> last_write[key]]]
    /\ pc' = [pc EXCEPT ![t] = "count_get"]
    /\ UNCHANGED <<impl, kv_table, totalGets, cacheHits, last_write>>
    /\ UNCHANGED <<max_size_, total_connections_, idle_connections_, created, handle,
                   acquires, arrival, thrown>>
    /\ UNCHANGED <<cacheVars, clientVars, lockVars, countVars>>

\* totalGets++ / cacheHits++, first half: the counter is read
LoadCounter(t, at, to) ==
    /\ pc[t] = at
    /\ tmp' = [tmp EXCEPT ![t] = IF at = "count_get" THEN totalGets ELSE cacheHits]
    /\ pc' = [pc EXCEPT ![t] = to]
    /\ UNCHANGED <<srvVars, counted>>
    /\ UNCHANGED <<max_size_, total_connections_, idle_connections_, created, handle,
                   acquires, arrival, thrown>>
    /\ UNCHANGED <<cacheVars, clientVars, lockVars>>

\* totalGets++, second half: the value read plus one is written
StoreTotalGets(t) ==
    /\ pc[t] = "store_get"
    /\ totalGets' = tmp[t] + 1
    /\ counted' = [counted EXCEPT !.gets = @ + 1]
    /\ pc' = [pc EXCEPT ![t] = "probe"]
    /\ UNCHANGED <<impl, kv_table, req, opt_value, res, cacheHits, requests, last_write,
                   sequential, tmp>>
    /\ UNCHANGED <<max_size_, total_connections_, idle_connections_, created, handle,
                   acquires, arrival, thrown>>
    /\ UNCHANGED <<cacheVars, clientVars, lockVars>>

\* GetKv: cache.Get(key); on a hit next is cacheHits++, on a miss connPool->acquire()
ProbeCache(t) ==
    /\ pc[t] = "probe"
    /\ shards_' = Get(req[t].key)
    /\ opt_value' = [opt_value EXCEPT ![t] = GetValue(req[t].key)]
    /\ pc' = [pc EXCEPT ![t] = IF GetValue(req[t].key) # <<>> THEN "count_hit"
                                                              ELSE "acquire"]
    /\ UNCHANGED <<impl, kv_table, req, res, totalGets, cacheHits, requests, last_write,
                   sequential>>
    /\ UNCHANGED <<max_size_, total_connections_, idle_connections_, created, handle,
                   acquires, arrival, thrown>>
    /\ UNCHANGED <<ctor_args, ctor_result, num_shards_, clear_pos, cache_ret, clear_late,
                   touched, clientVars, lockVars, countVars>>

\* cacheHits++, second half, and the hit is answered 200 with the cached value
StoreCacheHits(t) ==
    /\ pc[t] = "store_hit"
    /\ cacheHits' = tmp[t] + 1
    /\ counted' = [counted EXCEPT !.hits = @ + 1]
    /\ res' = [res EXCEPT ![t] = [status |-> 200, body |-> opt_value[t], sent |-> TRUE]]
    /\ pc' = [pc EXCEPT ![t] = "done"]
    /\ UNCHANGED <<impl, kv_table, req, opt_value, totalGets, requests, last_write,
                   sequential, tmp>>
    /\ UNCHANGED <<max_size_, total_connections_, idle_connections_, created, handle,
                   acquires, arrival, thrown>>
    /\ UNCHANGED <<cacheVars, clientVars, lockVars>>

CountersNext ==
    \/ \E t \in Workers, key \in ReqKeys : GetKvEnter(t, key)
    \/ \E t \in Workers : LoadCounter(t, "count_get", "store_get")
    \/ \E t \in Workers : StoreTotalGets(t)
    \/ \E t \in Workers : ProbeCache(t)
    \/ \E t \in Workers : LoadCounter(t, "count_hit", "store_hit")
    \/ \E t \in Workers : StoreCacheHits(t)
    \/ \E t \in Workers : GetSelect(t)
    \/ \E t \in Workers : GetFinish(t)
    \/ \E t \in Workers : AcquireIdle(t, "have_conn")
    \/ \E t \in Workers : AcquireCreate(t)
    \/ \E t \in Workers : FactoryOk(t, "have_conn")
    \/ \E t \in Workers : Destroy(t, 1, "scope_exit", "return")
    \/ \E t \in Workers : NotifyOne(t, "return")
    \/ \E t \in Workers : HandlerReturn(t)

SpecKvCounters == CountersInit /\ [][CountersNext]_vars

\* ========================================================= the load generator
\* main() parses its arguments, sets keep_running, starts num_threads workers, sleeps,
\* clears keep_running and joins the workers.  loadgen.pc: "spawn" (starting workers
\* and sleeping), "join", "report".  worker[i].pc: "unborn", "seed" (before the
\* generator is seeded), "test" (the loop condition), "fold" (the loop is left),
\* "exited".  History: worker[i].executed counts the operations executed, last and
\* outcome are the latest request and what came back.

KEYSPACE_SIZE == 1000000
LARGE_KEYSPACE_START == KEYSPACE_SIZE + 1
LARGE_KEYSPACE_END == 1000000000
INT_MAX == 2147483647

ClientWorkers == 0..(MaxClientThreads - 1)

WorkloadTypes == {"put_all", "get_all", "get_popular", "mixed"}

\* the workload classes are those defined in main.cpp or those of the header files
Builds == {"main.cpp", "headers"}

\* the values of argv[6]
SeedArgs == (0 - MaxSeed - 1)..MaxSeed \cup {INT_MAX}

\* what std::random_device may return
Entropy == 0..MaxEntropy

\* the integers that stand for all integers a distribution can return: the ends of
\* every interval the workloads use
Representatives ==
    <<0, 1, 79, 80, 99, 100, 101, KEYSPACE_SIZE, LARGE_KEYSPACE_START, LARGE_KEYSPACE_END>>

\* std::uniform_int_distribution<>(lo, hi): the values it can return
Dist(lo, hi) == SelectSeq(Representatives, LAMBDA k : lo <= k /\ k <= hi)

\* dist(gen): the value drawn is a function of the generator's state
Draw(gen, dist) == dist[(((gen.seed % Len(dist)) + gen.draws) % Len(dist)) + 1]

\* gen after n draws
Advance(gen, n) == [gen EXCEPT !.draws = @ + n]

\* PutAllWorkload with another interval
PutAllDist_LargeKeyspace == Dist(1, LARGE_KEYSPACE_END)

\* PutAllWorkload::dist
PutAllDist == Dist(1, KEYSPACE_SIZE)

\* the path of a key request: "/key/" or "/" before the key
KeyPath(prefix, key) == [prefix |-> prefix, key |-> key]

\* the body "value-" + std::to_string(key)
ValueOf(key) == <<"value-", key>>

\* PutAllWorkload::execute: the request issued and the draws taken
PutAllExecute(build, gen) ==
    LET key == Draw(gen, PutAllDist)
    IN  [method |-> "PUT", path |-> KeyPath(IF build = "main.cpp" THEN "/key/" ELSE "/", key),
         body |-> ValueOf(key), draws |-> 1]

\* GetAllWorkload::execute
GetAllExecute(build, gen) ==
    LET key == Draw(gen, Dist(1, KEYSPACE_SIZE))
    IN  [method |-> "GET", path |-> KeyPath("/key/", key), body |-> <<>>, draws |-> 1]

\* GetPopularWorkload::execute
GetPopularExecute(build, gen) ==
    LET key == Draw(gen, Dist(1, 100))
    IN  [method |-> "GET", path |-> KeyPath(IF build = "main.cpp" THEN "/key/" ELSE "/", key),
         body |-> <<>>, draws |-> 1]

\* MixedWorkload::execute
MixedExecute(build, gen) ==
    LET op == Draw(gen, Dist(0, 99))
    IN  IF op < 80
        THEN LET key == Draw(Advance(gen, 1), Dist(1, 100))
             IN  [method |-> "GET", path |-> KeyPath("/key/", key), body |-> <<>>,
                  draws |-> 2]
        ELSE LET key == Draw(Advance(gen, 1), Dist(LARGE_KEYSPACE_START, LARGE_KEYSPACE_END))
             IN  [method |-> "PUT", path |-> KeyPath("/key/", key), body |-> ValueOf(key),
                  draws |-> 2]

\* workload->execute(cli, gen)
WorkloadExecute(type, build, gen) ==
    CASE type = "put_all" -> PutAllExecute(build, gen)
      [] type = "get_all" -> GetAllExecute(build, gen)
      [] type = "get_popular" -> GetPopularExecute(build, gen)
      [] type = "mixed" -> MixedExecute(build, gen)

\* the server of class c has a key handler for this method and path: KvServer
\* registers "/key/(\d+)" for GET, PUT and DELETE, dispatch_handler of KvServerCw
\* matches ^/(\d+)$
Routes(c, method, path) ==
    /\ method \in Methods
    /\ path.prefix = (IF c = "KvServer" THEN "/key/" ELSE "/")

\* what execute can come back with: a response with a status, no response (the
\* transport failed), or an exception
Outcomes ==
    [threw : {FALSE}, responded : {TRUE}, status : {200, 404}]
        \cup {[threw |-> FALSE, responded |-> FALSE, status |-> 0],
              [threw |-> TRUE, responded |-> FALSE, status |-> 0]}

\* the loop body counting every outcome as a timed success
Count_AlwaysSuccess(w, o, elapsed) ==
    [w EXCEPT !.thread_requests = @ + 1, !.thread_duration_micros = @ + elapsed]

\* the loop body after execute: the counters of the worker
Count(w, o, elapsed) ==
    IF ~o.threw /\ o.responded /\ o.status = 200
    THEN [w EXCEPT !.thread_requests = @ + 1, !.thread_duration_micros = @ + elapsed]
    ELSE [w EXCEPT !.thread_errors = @ + 1]

\* main: int thread_seed = (seed == -1) ? -1 : (seed + i); beyond INT_MAX the
\* addition overflows and the result is not defined: any int
ThreadSeed(seed, i) ==
    IF seed = -1 THEN {-1}
    ELSE IF seed <= INT_MAX - i THEN {seed + i}
    ELSE {-1 - INT_MAX, -1, 0}

NotStarted ==
    [pc |-> "unborn", seed |-> 0, gen |-> [source |-> "none", seed |-> 0, draws |-> 0],
     thread_requests |-> 0, thread_errors |-> 0, thread_duration_micros |-> 0,
     executed |-> 0, last |-> [method |-> "none"], outcome |-> [threw |-> FALSE]]

\* the state of main() when its arguments are parsed and keep_running is set
ClientInit ==
    /\ keep_running = TRUE
    /\ total_requests = 0
    /\ total_errors = 0
    /\ total_duration_micros = 0
    /\ \E build \in Builds, type \in WorkloadTypes, n \in 1..MaxClientThreads,
          given \in BOOLEAN :
          \E seed \in (IF given THEN SeedArgs ELSE {-1}) :
              loadgen = [pc |-> "spawn", build |-> build, workload_type |-> type,
                         num_threads |-> n, seed_given |-> given, seed |-> seed,
                         spawned |-> 0]
    /\ worker = [i \in ClientWorkers |-> NotStarted]
    /\ NoServer
    /\ PoolInit(1)
    /\ ctor_args = [max_size |-> 0, shard_count |-> 0]
    /\ ctor_result = "none"
    /\ num_shards_ = 0
    /\ shards_ = <<>>
    /\ clear_pos = 0
    /\ cache_ret = [op |-> "none"]
    /\ clear_late = {}
    /\ touched = <<>>
    /\ NoCalls
    /\ NoCounting

\* main: threads.emplace_back(client_worker, ..., thread_seed) for the next i
Spawn ==
    /\ loadgen.pc = "spawn"
    /\ loadgen.spawned < loadgen.num_threads
    /\ \E ts \in ThreadSeed(loadgen.seed, loadgen.spawned) :
          worker' = [worker EXCEPT ![loadgen.spawned] =
                        [@ EXCEPT !.pc = "seed", !.seed = ts]]
    /\ loadgen' = [loadgen EXCEPT !.spawned = @ + 1]
    /\ UNCHANGED <<keep_running, total_requests, total_errors, total_duration_micros>>
    /\ UNCHANGED <<cacheVars, poolVars, srvVars, lockVars, countVars>>

\* main: the sleep is over, keep_running.store(false)
Stop ==
    /\ loadgen.pc = "spawn"
    /\ loadgen.spawned = loadgen.num_threads
    /\ keep_running' = FALSE
    /\ loadgen' = [loadgen EXCEPT !.pc = "join"]
    /\ UNCHANGED <<total_requests, total_errors, total_duration_micros, worker>>
    /\ UNCHANGED <<cacheVars, poolVars, srvVars, lockVars, countVars>>

\* main: every t.join() has returned
Join ==
    /\ loadgen.pc = "join"
    /\ \A i \in ClientWorkers : i < loadgen.num_threads => worker[i].pc = "exited"
    /\ loadgen' = [loadgen EXCEPT !.pc = "report"]
    /\ UNCHANGED <<keep_running, total_requests, total_errors, total_duration_micros,
                   worker>>
    /\ UNCHANGED <<cacheVars, poolVars, srvVars, lockVars, countVars>>

\* client_worker: the generator is seeded from std::random_device if seed is -1,
\* else with seed; the conversion to the generator's unsigned 32-bit type keeps the
\* 32 bits, and gen.seed is the int that has them
SeedGen(i) ==
    /\ worker[i].pc = "seed"
    /\ \E e \in (IF worker[i].seed = -1 THEN Entropy ELSE {worker[i].seed}) :
          worker' = [worker EXCEPT ![i] =
                        [@ EXCEPT !.pc = "test",
                                  !.gen = [source |-> IF worker[i].seed = -1
                                                      THEN "random_device" ELSE "seed",
                                           seed |-> e, draws |-> 0]]]
    /\ UNCHANGED <<keep_running, total_requests, total_errors, total_duration_micros,
                   loadgen>>
    /\ UNCHANGED <<cacheVars, poolVars, srvVars, lockVars, countVars>>

\* client_worker: keep_running.load() is true and the loop body runs once: execute,
\* then count its outcome (the body touches nothing but the worker's locals)
Iterate(i, o, elapsed) ==
    /\ worker[i].pc = "test"
    /\ keep_running
    /\ worker[i].executed < MaxOps
    /\ LET request == WorkloadExecute(loadgen.workload_type, loadgen.build, worker[i].gen)
       IN  worker' = [worker EXCEPT ![i] =
                        [Count(@, o, elapsed) EXCEPT
                            !.gen = Advance(worker[i].gen, request.draws),
                            !.executed = @ + 1,
                            !.last = request,
                            !.outcome = o]]
    /\ UNCHANGED <<keep_running, total_requests, total_errors, total_duration_micros,
                   loadgen>>
    /\ UNCHANGED <<cacheVars, poolVars, srvVars, lockVars, countVars>>

\* client_worker: keep_running.load() is false, the loop is left
LeaveLoop(i) ==
    /\ worker[i].pc = "test"
    /\ ~keep_running
    /\ worker' = [worker EXCEPT ![i].pc = "fold"]
    /\ UNCHANGED <<keep_running, total_requests, total_errors, total_duration_micros,
                   loadgen>>
    /\ UNCHANGED <<cacheVars, poolVars, srvVars, lockVars, countVars>>

\* client_worker: the three fetch_add on the shared totals
Fold(i) ==
    /\ worker[i].pc = "fold"
    /\ total_requests' = total_requests + worker[i].thread_requests
    /\ total_errors' = total_errors + worker[i].thread_errors
    /\ total_duration_micros' = total_duration_micros + worker[i].thread_duration_micros
    /\ worker' = [worker EXCEPT ![i].pc = "exited"]
    /\ UNCHANGED <<keep_running, loadgen>>
    /\ UNCHANGED <<cacheVars, poolVars, srvVars, lockVars, countVars>>

ClientNext ==
    \/ Spawn
    \/ Stop
    \/ Join
    \/ \E i \in ClientWorkers : SeedGen(i)
    \/ \E i \in ClientWorkers, o \in Outcomes, elapsed \in 1..MaxElapsed : Iterate(i, o, elapsed)
    \/ \E i \in ClientWorkers : LeaveLoop(i)
    \/ \E i \in ClientWorkers : Fold(i)

SpecClient == ClientInit /\ [][ClientNext]_vars

\* ------------------------------------------------- the load generator, start to stop
\* main() from the parsed arguments on, with keep_running as it is declared (false)
\* and the loop of client_worker taken apart: the test of keep_running, then the
\* body.  loadgen.pc in addition: "parsed" (before keep_running.store(true));
\* worker[i].pc in addition: "body" (the test was true, the request is under way).

RunInit ==
    /\ keep_running = FALSE
    /\ total_requests = 0
    /\ total_errors = 0
    /\ total_duration_micros = 0
    /\ \E type \in WorkloadTypes, n \in 1..MaxClientThreads :
          loadgen = [pc |-> "parsed", build |-> "main.cpp", workload_type |-> type,
                     num_threads |-> n, seed_given |-> FALSE, seed |-> -1,
                     spawned |-> 0]
    /\ worker = [i \in ClientWorkers |-> NotStarted]
    /\ NoServer
    /\ PoolInit(1)
    /\ ctor_args = [max_size |-> 0, shard_count |-> 0]
    /\ ctor_result = "none"
    /\ num_shards_ = 0
    /\ shards_ = <<>>
    /\ clear_pos = 0
    /\ cache_ret = [op |-> "none"]
    /\ clear_late = {}
    /\ touched = <<>>
    /\ NoCalls
    /\ NoCounting

\* main: keep_running.store(true), before any thread is started
SetKeepRunning ==
    /\ loadgen.pc = "parsed"
    /\ keep_running' = TRUE
    /\ loadgen' = [loadgen EXCEPT !.pc = "spawn"]
    /\ UNCHANGED <<total_requests, total_errors, total_duration_micros, worker>>
    /\ UNCHANGED <<cacheVars, poolVars, srvVars, lockVars, countVars>>

\* client_worker entering the loop body whatever keep_running says
LoopTest_IgnoresFlag(i) ==
    /\ worker[i].pc = "test"
    /\ worker[i].executed < MaxOps
    /\ worker' = [worker EXCEPT ![i].pc = "body"]
    /\ UNCHANGED <<keep_running, total_requests, total_errors, total_duration_micros,
                   loadgen>>
    /\ UNCHANGED <<cacheVars, poolVars, srvVars, lockVars, countVars>>

\* client_worker: while (keep_running.load()) found the flag set
LoopTest(i) ==
    /\ worker[i].pc = "test"
    /\ keep_running
    /\ worker[i].executed < MaxOps
    /\ worker' = [worker EXCEPT ![i].pc = "body"]
    /\ UNCHANGED <<keep_running, total_requests, total_errors, total_duration_micros,
                   loadgen>>
    /\ UNCHANGED <<cacheVars, poolVars, srvVars, lockVars, countVars>>

\* client_worker: the loop body: execute returns, times out or throws, and the
\* outcome is counted
LoopBody(i, o, elapsed) ==
    /\ worker[i].pc = "body"
    /\ LET request == WorkloadExecute(loadgen.workload_type, loadgen.build, worker[i].gen)
       IN  worker' = [worker EXCEPT ![i] =
                        [Count(@, o, elapsed) EXCEPT
                            !.pc = "test",
                            !.gen = Advance(worker[i].gen, request.draws),
                            !.executed = @ + 1,
                            !.last = request,
                            !.outcome = o]]
    /\ UNCHANGED <<keep_running, total_requests, total_errors, total_duration_micros,
                   loadgen>>
    /\ UNCHANGED <<cacheVars, poolVars, srvVars, lockVars, countVars>>

RunNext ==
    \/ SetKeepRunning
    \/ Spawn
    \/ Stop
    \/ Join
    \/ \E i \in ClientWorkers : SeedGen(i)
    \/ \E i \in ClientWorkers : LoopTest(i)
    \/ \E i \in ClientWorkers, o \in Outcomes, elapsed \in 1..MaxElapsed : LoopBody(i, o, elapsed)
    \/ \E i \in ClientWorkers : LeaveLoop(i)
    \/ \E i \in ClientWorkers : Fold(i)

\* main runs on, every started thread runs on, and every request under way returns,
\* times out or throws
SpecClientRun ==
    /\ RunInit
    /\ [][RunNext]_vars
    /\ WF_vars(SetKeepRunning \/ Spawn \/ Stop \/ Join)
    /\ \A i \in ClientWorkers :
          /\ WF_vars(SeedGen(i) \/ LoopTest(i) \/ LeaveLoop(i) \/ Fold(i))
          /\ WF_vars(\E o \in Outcomes, elapsed \in 1..MaxElapsed : LoopBody(i, o, elapsed))


\* ================================================================= claims

\* C1: for a cache constructed with max_size > 0 and shard_count > 0, after any
\* sequence of Put, Get, Remove and Clear the number of entries summed over all
\* shards never exceeds max_size.
C1_TotalWithinMaxSize ==
    ctor_result = "ok" => Size <= ctor_args.max_size

\* ---- the request handlers

\* the cache holds for key nothing, or exactly the value v
CacheFreshFor(key, v) == GetValue(key) \in {<<>>, <<v>>}

\* C2: once a PUT(k, v) with no other writer to k has been answered 200, every GET(k)
\* that starts afterwards is answered 200 with v, whatever GETs of k were in flight
\* during the PUT, and the cache holds no other value than v for k.
C2_ReadYourWrites ==
    /\ \A t \in Threads : \A v \in Values :
          (req[t].op = "GET" /\ res[t].sent /\ req[t].expect = {<<v>>}) =>
              (res[t].status = 200 /\ res[t].body = <<v>>)
    /\ \A k \in Keys : \A v \in Values :
          last_write[k] = {<<v>>} => CacheFreshFor(k, v)

\* C3: in a sequential execution a PUT(k, v) answered 200 leaves no entry for k in the
\* cache, and the next GET(k) is answered 200 with v and repopulates the cache with v.
C3_PutInvalidates ==
    sequential =>
        \A t \in Threads :
            /\ (req[t].op = "PUT" /\ res[t].sent /\ req[t].no = requests) =>
                   (res[t].status = 200 /\ GetValue(req[t].key) = <<>>)
            /\ \A v \in Values :
                   (req[t].op = "GET" /\ res[t].sent /\ req[t].expect = {<<v>>}) =>
                       /\ res[t].status = 200 /\ res[t].body = <<v>>
                       /\ (req[t].no = requests => GetValue(req[t].key) = <<v>>)

\* C4: in a sequential execution every DELETE is answered 200, and once a DELETE(k) has
\* been answered the next GET(k) is answered 404, whatever the cache held for k.
C4_DeleteThenGet404 ==
    sequential =>
        \A t \in Threads :
            /\ (req[t].op = "DELETE" /\ res[t].sent) => res[t].status = 200
            /\ (req[t].op = "GET" /\ res[t].sent /\ req[t].expect = {<<>>}) =>
                   res[t].status = 404

\* ---- the pool

\* the connections owned by PooledConnection objects that are alive
Owned == {x \in Threads \X Slots : handle[x[1]][x[2]].live /\ handle[x[1]][x[2]].connection_ # <<>>}

\* the threads whose acquire has counted a connection that is still being constructed
Constructing == {t \in Threads : pc[t] \in {"factory", "lock_on_fail"}}

\* how often connection id occurs in the idle queue
IdleOccurrences(id) == Cardinality({i \in 1..Len(idle_connections_) : idle_connections_[i] = id})

\* C5: under any interleaving of acquire calls, releases and factory failures,
\* get_total_count() is at most max_size in every reachable state, also while
\* factories run outside the lock.
C5_TotalAtMostMax == get_total_count <= max_size_

\* C5 witness: the pool is at max_size while a factory is still running outside the
\* lock and another thread is inside acquire
C5_Witness ==
    /\ total_connections_ = max_size_
    /\ \E t \in Threads : pc[t] = "factory"
    /\ \E t \in Threads : pc[t] \in {"acquire", "waiting"}

\* C6: in every reachable state (connections owned by live handles) + (connections in
\* the idle queue) = total_connections_ <= max_size, a connection under construction
\* counting as owned by the acquire that counted it; the count is rolled back every
\* time a construction fails, however the factory reports the failure.
C6_PoolAccounting ==
    /\ Cardinality(Owned) + Len(idle_connections_) + Cardinality(Constructing)
         = total_connections_
    /\ total_connections_ <= max_size_

\* C7: every pooled connection has at most one owner at every moment: it is never in
\* two live handles, and never in the idle queue and in a handle at once.
C7_AtMostOneOwner ==
    \A id \in 1..created :
        Cardinality({x \in Owned : handle[x[1]][x[2]].connection_ = <<id>>})
          + IdleOccurrences(id) <= 1

\* C7 witness: a thread holds a moved-from handle beside the handle that took its
\* connection, while another connection has been released to the idle queue
C7_Witness ==
    /\ \E t \in Threads : \E s \in Slots, d \in Slots :
          /\ handle[t][s].live /\ handle[t][s].moved
          /\ handle[t][d].live /\ handle[t][d].connection_ # <<>>
    /\ idle_connections_ # <<>>

\* C8: every handle returned by acquire releases exactly once: destroying a handle that
\* was not moved from increases get_idle_count() by one, and destroying a moved-from
\* handle releases nothing.
C8_ReleaseExactlyOnce ==
    [][\A t \in Threads, s \in Slots :
          (handle[t][s].live /\ ~handle'[t][s].live) =>
              IF handle[t][s].moved
              THEN idle_connections_' = idle_connections_
              ELSE Len(idle_connections_') = Len(idle_connections_) + 1]_vars

\* C9: each time acquire evaluates its predicate under the lock it blocks exactly when
\* the idle queue is empty and total_connections_ >= max_size; when it goes on it takes
\* the front idle connection if the queue is non-empty, and counts and creates a new
\* connection only if the queue is empty and total_connections_ < max_size; a blocked
\* thread gets nothing without evaluating the predicate again.
C9_AcquireDecision ==
    [][\A t \in Threads :
          /\ (pc[t] = "acquire" /\ pc'[t] # "acquire") =>
                /\ (pc'[t] = "waiting") <=>
                       (idle_connections_ = <<>> /\ total_connections_ >= max_size_)
                /\ (idle_connections_ # <<>>) =>
                       /\ handle'[t][1].connection_ = <<Head(idle_connections_)>>
                       /\ idle_connections_' = Tail(idle_connections_)
                       /\ total_connections_' = total_connections_
                       /\ pc'[t] # "factory"
                /\ (pc'[t] = "factory") =>
                       /\ idle_connections_ = <<>>
                       /\ total_connections_ < max_size_
                       /\ total_connections_' = total_connections_ + 1
          /\ (pc[t] = "waiting") => (pc'[t] \in {"waiting", "acquire"} /\ handle'[t] = handle[t])
      ]_vars

\* C9 witness: a thread is blocked in acquire with the idle queue empty and the pool at
\* max_size, after another thread took an idle connection rather than creating one
C9_Witness ==
    /\ \E t \in Threads : pc[t] = "waiting"
    /\ idle_connections_ = <<>>
    /\ total_connections_ = max_size_
    /\ created < acquires - 1
    /\ Owned # {}

\* C10 (as claimed): a thread takes a released connection only if no other thread has
\* been blocked in acquire for longer: it is the longest-blocked thread, or nobody is
\* blocked.
C10_FifoHandOff ==
    [][\A t \in Threads :
          (pc[t] = "acquire" /\ idle_connections_ # <<>>
             /\ idle_connections_' = Tail(idle_connections_) /\ handle'[t][1].live) =>
              (arrival = <<>> \/ Head(arrival) = t)]_vars

\* C10 (amended): a release wakes at most one blocked thread, and a thread that takes an
\* idle connection takes the one released first; which thread that is, is not ordered.
C10_ReleaseWakesAtMostOne ==
    [][\A t \in Threads :
          /\ (pc[t] = "notify_one" /\ pc'[t] # "notify_one") =>
                Cardinality({u \in Threads : pc[u] = "waiting" /\ pc'[u] # "waiting"}) <= 1
          /\ (pc[t] = "acquire" /\ handle'[t][1].live /\ idle_connections_ # <<>>) =>
                /\ handle'[t][1].connection_ = <<Head(idle_connections_)>>
                /\ idle_connections_' = Tail(idle_connections_)
      ]_vars

\* C10 witness: one blocked thread has been woken and is evaluating the predicate again
\* with a released connection in the idle queue, while another thread is still blocked
C10_Witness ==
    \E t \in Threads, u \in Threads :
        /\ t # u
        /\ pc[t] = "acquire" /\ t \in SeqToSet(arrival)
        /\ pc[u] = "waiting"
        /\ idle_connections_ # <<>>

\* ---- the GET handler

\* C11: a GET(k) that hits the cache is answered 200 with the cached value and neither
\* acquires a connection nor reads the store; a GET(k) that misses acquires a
\* connection and reads the store; if the store has k the handler inserts (k, value)
\* into the cache and answers 200 with that value, otherwise it answers 404 and leaves
\* the cache unchanged.
C11_GetReadThrough ==
    [][\A t \in Workers :
        /\ GetProbe(t) =>
              IF GetValue(req[t].key) # <<>>
              THEN /\ res'[t].status = 200 /\ res'[t].body = GetValue(req[t].key)
                   /\ pc'[t] = "done"
                   /\ UNCHANGED <<total_connections_, idle_connections_, handle, created>>
                   /\ UNCHANGED <<opt_value, kv_table>>
              ELSE /\ pc'[t] = "acquire"
                   /\ res'[t].status = -1
        /\ GetSelect(t) =>
              /\ handle[t][1].live /\ handle[t][1].connection_ # <<>>
              /\ opt_value'[t] = (IF req[t].key \in DOMAIN kv_table
                                  THEN <<kv_table[req[t].key]>> ELSE <<>>)
        /\ GetFinish(t) =>
              IF opt_value[t] # <<>>
              THEN /\ res'[t].status = 200 /\ res'[t].body = opt_value[t]
                   /\ GetValue(req[t].key)' = opt_value[t]
              ELSE /\ res'[t].status = 404
                   /\ shards_' = shards_
      ]_vars

\* a GET that missed the cache, found the key in the store and was answered from it,
\* and a GET of the same key that was answered from the cache
C11_Witness ==
    \E t, u \in Workers :
        /\ req[t].op = "GET" /\ pc[t] = "done" /\ opt_value[t] # <<>>
        /\ res[t].status = 200 /\ res[t].body = opt_value[t]
        /\ req[u].op = "GET" /\ pc[u] = "done" /\ opt_value[u] = <<>>
        /\ res[u].status = 200 /\ req[u].key = req[t].key

\* ---- the cache operations

\* the keys and the recency order of shard sh without key
OthersOrder(sh, key) == Without(sh.lru_list_, key)

\* the shards sh1 and sh2 hold the same value for every key of S
SameValues(sh1, sh2, S) == \A k \in S : sh1.cache_map_[k] = sh2.cache_map_[k]

\* this step is a call op(key) of the cache that ran to completion
CacheCall(op, key) ==
    /\ cache_ret'.op = op
    /\ cache_ret'.key = key
    /\ clear_pos' = clear_pos

\* C12: Put(k, v) changes only the shard of k. If k is present it overwrites the value,
\* moves k to the most-recently-used position and evicts nothing; if k is absent and
\* the shard is at capacity it evicts exactly the least-recently-used key and inserts k
\* as most-recently-used; if k is absent and the shard is below capacity it inserts k
\* as most-recently-used and evicts nothing.
C12_PutIsLru ==
    [][\A key \in Keys, value \in Values :
        (CacheCall("Put", key) /\ cache_ret'.value = value) =>
            LET i == getShardForKey(key)
                old == shards_[i]
                new == shards_'[i]
                keys == DOMAIN old.cache_map_
                atCapacity == Cardinality(keys) >= old.max_shard_size_
                lru == old.lru_list_[Len(old.lru_list_)]
            IN  /\ \A j \in 1..Len(shards_) : j # i => shards_'[j] = shards_[j]
                /\ Len(shards_') = Len(shards_)
                /\ new.max_shard_size_ = old.max_shard_size_
                /\ key \in DOMAIN new.cache_map_
                /\ new.cache_map_[key] = value
                /\ new.lru_list_ # <<>>
                /\ Head(new.lru_list_) = key
                /\ IF key \in keys
                   THEN /\ DOMAIN new.cache_map_ = keys
                        /\ Tail(new.lru_list_) = OthersOrder(old, key)
                        /\ SameValues(new, old, keys \ {key})
                   ELSE IF atCapacity
                   THEN /\ DOMAIN new.cache_map_ = (keys \ {lru}) \cup {key}
                        /\ Tail(new.lru_list_) = OthersOrder(old, lru)
                        /\ SameValues(new, old, keys \ {lru})
                   ELSE /\ DOMAIN new.cache_map_ = keys \cup {key}
                        /\ Tail(new.lru_list_) = old.lru_list_
                        /\ SameValues(new, old, keys)
      ]_vars

\* a Put has just returned, its key is most recently used in a shard of two slots
\* that is full, and some key that maps to the same shard is not resident
C12_Witness ==
    /\ cache_ret.op = "Put"
    /\ LET sh == shards_[getShardForKey(cache_ret.key)]
       IN  /\ sh.max_shard_size_ = 2
           /\ Len(sh.lru_list_) = 2
           /\ Head(sh.lru_list_) = cache_ret.key
           /\ sh.cache_map_[cache_ret.key] = cache_ret.value
           /\ \E k \in Keys : /\ getShardForKey(k) = getShardForKey(cache_ret.key)
                              /\ k \notin DOMAIN sh.cache_map_

\* C13: Get(k) on a hit returns the value the cache holds for k, which is the value of
\* the most recent Put(k, .) (only a Put(k, v) makes the cache hold v for k), and moves
\* k to the most-recently-used position, leaving all values and the relative order of
\* the other keys unchanged; on a miss it returns empty and changes nothing.
C13_GetRefreshesRecency ==
    [][/\ \A key \in Keys :
            CacheCall("Get", key) =>
                LET i == getShardForKey(key)
                    old == shards_[i]
                    new == shards_'[i]
                IN  IF key \in DOMAIN old.cache_map_
                    THEN /\ cache_ret'.value = <<old.cache_map_[key]>>
                         /\ new.cache_map_ = old.cache_map_
                         /\ new.lru_list_ = <<key>> \o OthersOrder(old, key)
                         /\ \A j \in 1..Len(shards_) : j # i => shards_'[j] = shards_[j]
                    ELSE /\ cache_ret'.value = <<>>
                         /\ shards_' = shards_
       /\ \A k \in Keys :
            LET old == shards_[getShardForKey(k)].cache_map_
                new == shards_'[getShardForKey(k)].cache_map_
            IN  (k \in DOMAIN new /\ (k \notin DOMAIN old \/ new[k] # old[k])) =>
                    (CacheCall("Put", k) /\ cache_ret'.value = new[k])
      ]_vars

\* a Get has just hit a key of a shard that holds two keys
C13_Witness ==
    /\ cache_ret.op = "Get"
    /\ cache_ret.value # <<>>
    /\ LET sh == shards_[getShardForKey(cache_ret.key)]
       IN  /\ Len(sh.lru_list_) = 2
           /\ Head(sh.lru_list_) = cache_ret.key
           /\ cache_ret.value = <<sh.cache_map_[cache_ret.key]>>

\* C14: Remove(k) returns true exactly when k was present just before the call and
\* leaves k absent; k stays absent until a Put(k, .); removing an absent key changes
\* nothing, removing a present key leaves the values and the relative recency order
\* of all other keys unchanged.
C14_RemoveReportsPresence ==
    [][/\ \A key \in Keys :
            CacheCall("Remove", key) =>
                LET i == getShardForKey(key)
                    old == shards_[i]
                    new == shards_'[i]
                    present == key \in DOMAIN old.cache_map_
                IN  /\ cache_ret'.value = present
                    /\ key \notin DOMAIN new.cache_map_
                    /\ key \notin SeqToSet(new.lru_list_)
                    /\ IF present
                       THEN /\ DOMAIN new.cache_map_ = (DOMAIN old.cache_map_) \ {key}
                            /\ SameValues(new, old, DOMAIN new.cache_map_)
                            /\ new.lru_list_ = OthersOrder(old, key)
                            /\ \A j \in 1..Len(shards_) : j # i => shards_'[j] = shards_[j]
                       ELSE shards_' = shards_
       /\ \A k \in Keys :
            (/\ k \notin DOMAIN shards_[getShardForKey(k)].cache_map_
             /\ k \in DOMAIN shards_'[getShardForKey(k)].cache_map_) => CacheCall("Put", k)
      ]_vars

\* a Remove has just returned true and left another key in the shard
C14_Witness ==
    /\ cache_ret.op = "Remove"
    /\ cache_ret.value = TRUE
    /\ LET sh == shards_[getShardForKey(cache_ret.key)]
       IN  /\ Len(sh.lru_list_) = 1
           /\ sh.max_shard_size_ = 2
           /\ cache_ret.key \notin DOMAIN sh.cache_map_

\* the keys resident in shard i
Resident(i) == DOMAIN shards_[i].cache_map_

\* C15: when Clear() has returned, every entry in the cache was inserted by a Put that
\* ran after Clear had cleared the entry's shard; so with no such concurrent Put every
\* shard's map and recency list are empty, Size() is 0 and every Get misses.
C15_ClearEmpties ==
    (cache_ret.op = "Clear" /\ clear_pos = 0) =>
        /\ \A i \in 1..Len(shards_) :
              /\ Resident(i) \subseteq clear_late
              /\ SeqToSet(shards_[i].lru_list_) = Resident(i)
        /\ clear_late = {} =>
              /\ \A i \in 1..Len(shards_) :
                    shards_[i].cache_map_ = <<>> /\ shards_[i].lru_list_ = <<>>
              /\ Size = 0
              /\ \A k \in Keys : GetValue(k) = <<>>

\* Clear() has returned from a cache of several shards and the cache is not empty: a
\* Put ran between the clearing of its shard and the return
C15_Witness ==
    /\ cache_ret.op = "Clear"
    /\ clear_pos = 0
    /\ Len(shards_) > 1
    /\ Size > 0
    /\ clear_late # {}

\* ---- recency

RECURSIVE Distinct(_)
\* the sequence s without the later occurrences of its elements
Distinct(s) ==
    IF s = <<>> THEN <<>>
    ELSE <<Head(s)>> \o Distinct(SelectSeq(Tail(s), LAMBDA x : x # Head(s)))

\* the distinct keys of shard i touched since the last Remove or Clear there, latest
\* first; with misses = FALSE a Get that missed does not count as a touch
LastTouched(i, misses) ==
    LET mine == SelectSeq(touched[i], LAMBDA r : misses \/ r.ok)
    IN  Distinct([j \in 1..Len(mine) |-> mine[j].key])

\* the K <= capacity keys of shard i touched last are all resident
RecentAreResident(i, misses) ==
    LET last == LastTouched(i, misses)
    IN  \A K \in 1..Len(last) :
            K <= shards_[i].max_shard_size_ => last[K] \in Resident(i)

\* C16 as stated: of the distinct keys touched by Put or Get that map to a shard, the
\* last K <= capacity are all resident (no Remove or Clear having intervened).
C16_RecentlyTouchedResident ==
    ctor_result = "ok" => \A i \in 1..Len(shards_) : RecentAreResident(i, TRUE)

\* C16 amended: of the distinct keys touched by a Put or by a Get that hit, the last
\* K <= capacity that map to a shard are all resident (no Remove or Clear having
\* intervened).
C16_RecentlyUsedResident ==
    ctor_result = "ok" => \A i \in 1..Len(shards_) : RecentAreResident(i, FALSE)

\* three keys of a two-slot shard were used in turn, so one of them has been evicted
C16_Witness ==
    /\ ctor_result = "ok"
    /\ \E i \in 1..Len(shards_) :
          /\ shards_[i].max_shard_size_ = 2
          /\ Len(LastTouched(i, FALSE)) = 3
          /\ LastTouched(i, FALSE)[3] \notin Resident(i)

\* ---- construction

\* the slot counts the shards_ vector holds, in order
Capacities == [i \in 1..Len(shards_) |-> shards_[i].max_shard_size_]

\* C17: construction with capacity C and shard count N gives each of the first
\* (C mod N) shards floor(C/N)+1 slots and the others floor(C/N) slots; a shard that
\* would get no slot is not created and the shard count used for key mapping is
\* reduced accordingly, so the capacities sum to exactly C.
C17_CapacitySplit ==
    ctor_result = "ok" =>
        LET C == ctor_args.max_size
            N == ctor_args.shard_count
            share(i) == (C \div N) + (IF i - 1 < C % N THEN 1 ELSE 0)
            kept == {i \in 1..N : share(i) > 0}
        IN  /\ Len(shards_) = Cardinality(kept)
            /\ num_shards_ = Cardinality(kept)
            /\ \A i \in 1..Len(shards_) : i \in kept /\ Capacities[i] = share(i)
            /\ Sum(Capacities, 1..Len(shards_)) = C

\* C18: construction fails with invalid_argument when the capacity or the shard count
\* is 0, with runtime_error only when the derived shard count is 0, and succeeds for
\* every other input; a constructed cache is in a state in which no Put, Get, Remove,
\* Clear or Size can fail: every key maps to an existing shard, every shard has at
\* least one slot, and map and recency list hold the same keys, each once.
C18_ConstructionErrors ==
    /\ (ctor_args.max_size = 0 \/ ctor_args.shard_count = 0)
           => ctor_result = "invalid_argument"
    /\ ctor_result = "runtime_error" => (num_shards_ = 0 /\ shards_ = <<>>)
    /\ (ctor_args.max_size > 0 /\ ctor_args.shard_count > 0 /\ ctor_result # "runtime_error")
           => ctor_result = "ok"
    /\ ctor_result # "ok" => (cache_ret.op = "none" /\ clear_pos = 0)
    /\ ctor_result = "ok" =>
          /\ num_shards_ > 0
          /\ num_shards_ = Len(shards_)
          /\ \A k \in Keys : getShardForKey(k) \in 1..Len(shards_)
          /\ \A i \in 1..Len(shards_) :
                /\ shards_[i].max_shard_size_ >= 1
                /\ SeqToSet(shards_[i].lru_list_) = Resident(i)
                /\ Len(shards_[i].lru_list_) = Cardinality(Resident(i))
                /\ Len(shards_[i].lru_list_) <= shards_[i].max_shard_size_

\* a cache constructed with fewer slots than shards has served calls and holds entries
C18_Witness ==
    /\ ctor_result = "ok"
    /\ ctor_args.max_size < ctor_args.shard_count
    /\ cache_ret.op \in {"Get", "Remove"}
    /\ Size > 0

\* ---- requests that fail

\* the request of thread t is over: answered, or ended by an exception or a crash
Over(t) == req[t].op # "none" /\ pc[t] \in {"done", "escaped", "crashed"}

\* C19: a request whose key segment is not an integer, or is a digit string that does
\* not fit a 32-bit signed integer, is answered with status 400, for GET, PUT and
\* DELETE alike.
C19_MalformedKey400 ==
    \A t \in Threads :
        (Over(t) /\ req[t].path # "int") => (pc[t] = "done" /\ res[t].status = 400)

\* C20: no exception escapes a request handler: whatever fails, the handler returns
\* normally with the response status set to one of 200, 404, 400 or 500.
C20_NoExceptionEscapes ==
    \A t \in Threads :
        /\ pc[t] \notin {"escaped", "crashed"}
        /\ (Over(t) /\ pc[t] = "done") => res[t].status \in {200, 404, 400, 500}

\* C21: when the store operation of a request fails (select, upsert or delete raises
\* a store error) the handler responds 500: a GET whose select fails is not answered
\* 404, a DELETE whose delete fails is not answered 200 and does not go on to
\* invalidate the cache.
C21_StoreFailure500 ==
    \A t \in Threads :
        (req[t].op # "none" /\ req[t].store_failed) =>
            /\ pc[t] # "invalidate"
            /\ Over(t) => (pc[t] = "done" /\ res[t].status = 500)

\* ---- concurrent writers of one key

\* every request received so far has been answered
AllResponded == \A t \in Threads : ~InFlight(t)

\* the latest request of some worker was a PUT that overlapped another PUT of the key
PutsOverlapped == \E t \in Workers : req[t].op = "PUT" /\ ~req[t].clean

\* C22: with several concurrent PUTs to the same key k (and possibly concurrent GETs
\* of k), once all requests have responded the cache has no entry for k or an entry
\* equal to the store's final value for k, which is what every later GET(k) returns.
C22_ConcurrentPutsConverge ==
    (AllResponded /\ PutsOverlapped) =>
        GetValue(RaceKey) \in {<<>>, getValueForKey(RaceKey)}

\* ---- the load generator

\* the workers main() has started
Started == {i \in ClientWorkers : i < loadgen.spawned}

\* execute came back with a response of status 200
Succeeded(o) == ~o.threw /\ o.responded /\ o.status = 200

\* what the step of worker i in which it executes an operation does to its counters
CountsOnce(i) ==
    IF Succeeded(worker'[i].outcome)
    THEN /\ worker'[i].thread_requests = worker[i].thread_requests + 1
         /\ worker'[i].thread_errors = worker[i].thread_errors
         /\ worker'[i].thread_duration_micros - worker[i].thread_duration_micros
                \in 1..MaxElapsed
    ELSE /\ worker'[i].thread_errors = worker[i].thread_errors + 1
         /\ worker'[i].thread_requests = worker[i].thread_requests
         /\ worker'[i].thread_duration_micros = worker[i].thread_duration_micros

\* the totals are the sums of the workers' counters
TotalsFolded ==
    /\ total_requests = Sum([i \in ClientWorkers |-> worker[i].thread_requests], Started)
    /\ total_errors = Sum([i \in ClientWorkers |-> worker[i].thread_errors], Started)
    /\ total_duration_micros =
           Sum([i \in ClientWorkers |-> worker[i].thread_duration_micros], Started)
    /\ total_requests + total_errors =
           Sum([i \in ClientWorkers |-> worker[i].executed], Started)

\* C23: every operation a worker executes increments exactly one of its counters:
\* requests, with the elapsed time added, when a response with status 200 came back,
\* errors, with no time added, otherwise; and once all workers are joined the totals
\* hold each worker's counters exactly once, so that total_requests + total_errors is
\* the number of operations executed.
C23_CountersAccount ==
    /\ [][\A i \in ClientWorkers :
             worker'[i].executed = worker[i].executed + 1 => CountsOnce(i)]_vars
    /\ [](\A i \in ClientWorkers :
             worker[i].thread_requests + worker[i].thread_errors = worker[i].executed)
    /\ [](loadgen.pc = "report" => TotalsFolded)

\* two workers are joined, both have executed operations, some answered 200 and some not
C23_Witness ==
    /\ loadgen.pc = "report"
    /\ loadgen.num_threads = 2
    /\ \A i \in Started : worker[i].executed = MaxOps
    /\ total_requests > 1
    /\ total_errors > 0
    /\ \E i \in Started : ~worker[i].outcome.responded

\* C24: when a seed S is given on the command line, whatever integer it is, worker i
\* seeds its generator with exactly S + i and never from the non-deterministic source;
\* that source is used only when no seed argument was given.
C24_SeedDeterministic ==
    \A i \in ClientWorkers :
        (loadgen.seed_given /\ worker[i].gen.source # "none") =>
            /\ worker[i].gen.source = "seed"
            /\ loadgen.seed <= INT_MAX - i
            /\ worker[i].gen.seed = loadgen.seed + i

\* the operations executed last by the workers of a put_all run
PutAllOps ==
    {worker[i].last : i \in {j \in ClientWorkers :
        loadgen.workload_type = "put_all" /\ worker[j].executed > 0}}

\* C25 as stated: every operation of put_all is a PUT on path /k with body "value-k",
\* where k ranges over the whole interval [1, 10^9]: every key of that interval can be
\* produced and no key outside it.
C25_PutAllWholeDomain ==
    /\ \A op \in PutAllOps :
          /\ op.method = "PUT"
          /\ op.path.prefix = "/"
          /\ op.body = ValueOf(op.path.key)
          /\ op.path.key \in 1..LARGE_KEYSPACE_END
    /\ PutAllOps # {} => PutAllDist = Dist(1, LARGE_KEYSPACE_END)

\* C25 amended: every operation of put_all is a PUT with body "value-k" on path /k
\* (the class of putall_workload.hpp) or /key/k (the class of main.cpp), and k lies in
\* the primary keyspace [1, 10^6]: no key above it is ever produced.
C25_PutAllPrimaryKeyspace ==
    \A op \in PutAllOps :
        /\ op.method = "PUT"
        /\ op.path.prefix = (IF loadgen.build = "main.cpp" THEN "/key/" ELSE "/")
        /\ op.body = ValueOf(op.path.key)
        /\ op.path.key \in 1..KEYSPACE_SIZE

\* put_all has produced both ends of the primary keyspace
C25_Witness ==
    /\ loadgen.build = "headers"
    /\ \E op \in PutAllOps : op.path.key = KEYSPACE_SIZE
    /\ \E op \in PutAllOps : op.path.key = 1

\* the handler classes
HandlerClasses == {"KvServer", "KvServerCw"}

\* C26: the request handler routes GET, PUT and DELETE on both /{k} and the legacy
\* /key/{k} to the key operation, so that every request the four workloads issue
\* (on /k or on /key/k) reaches a key handler.
C26_BothRoutesServed ==
    \A i \in ClientWorkers : \A c \in HandlerClasses :
        worker[i].executed > 0 => Routes(c, worker[i].last.method, worker[i].last.path)

\* ---- the shards

\* C27: in every reachable state of every shard the keys of cache_map_ are the keys
\* in lru_list_, every key occurs exactly once in lru_list_ (list length = map size),
\* the iterator stored with a key designates the list node that holds that key, and
\* the map size is at most max_shard_size_.
C27_ShardWellFormed ==
    \A i \in 1..Len(shards_) :
        LET sh == shards_[i]
        IN  /\ DOMAIN sh.cache_map_ = SeqToSet(sh.lru_list_)
            /\ Len(sh.lru_list_) = Cardinality(DOMAIN sh.cache_map_)
            /\ Len(sh.nodes) = Len(sh.lru_list_)
            /\ Cardinality(SeqToSet(sh.nodes)) = Len(sh.nodes)
            /\ DOMAIN sh.iters = DOMAIN sh.cache_map_
            /\ \A k \in DOMAIN sh.iters :
                  sh.iters[k] \in SeqToSet(sh.nodes) /\ Deref(sh, sh.iters[k]) = k
            /\ Cardinality(DOMAIN sh.cache_map_) <= sh.max_shard_size_

\* a full shard of two entries whose older node has been spliced to the front, after
\* an eviction somewhere in the cache
C27_Witness ==
    /\ cache_ret.op = "Get"
    /\ \E i \in 1..Len(shards_) :
          /\ Len(shards_[i].lru_list_) = 2
          /\ shards_[i].max_shard_size_ = 2
          /\ shards_[i].nodes = <<1, 2>>
          /\ Cardinality({r \in SeqToSet(touched[i]) : r.ok}) > 2

\* hash(k) mod num_shards_, as an index into shards_
ShardOf(k) == (key_hasher_(k) % num_shards_) + 1

\* the keys resident anywhere in the given shards
AllResident(shs) == UNION {DOMAIN shs[i].cache_map_ : i \in 1..Len(shs)}

\* C28: each key maps to the one shard hash(k) mod num_shards_, fixed for the lifetime
\* of the cache: a key is resident in no other shard, and Put, Get and Remove on k
\* leave every other shard's map and recency order unchanged; a key evicted by a call
\* on k is a key of k's own shard.
C28_OneShardPerKey ==
    /\ [](ctor_result = "ok" =>
            \A k \in Keys : \A i \in 1..Len(shards_) :
                k \in DOMAIN shards_[i].cache_map_ => i = ShardOf(k))
    /\ [][num_shards_' = num_shards_ /\ Len(shards_') = Len(shards_)]_vars
    /\ [][\A key \in Keys : \A op \in {"Put", "Get", "Remove"} :
            CacheCall(op, key) =>
                /\ \A j \in 1..Len(shards_) :
                      j # ShardOf(key) => shards_'[j] = shards_[j]
                /\ \A k \in AllResident(shards_) \ AllResident(shards_') :
                      ShardOf(k) = ShardOf(key)
         ]_vars

\* a Put has evicted a key of its own shard while another shard holds an entry
C28_Witness ==
    /\ cache_ret.op = "Put"
    /\ Len(shards_) > 1
    /\ \E j \in 1..Len(shards_) :
          j # ShardOf(cache_ret.key) /\ shards_[j].lru_list_ # <<>>
    /\ \E r \in SeqToSet(touched[ShardOf(cache_ret.key)]) :
          r.ok /\ r.key \notin AllResident(shards_)

\* ---- claims: the shard locks

\* thread t is between the construction and the destruction of a lock_guard on shard i
InShard(t, i) == call[t].pc \in {"held", "unlock"} /\ call[t].idx = i

C30_SizeSnapshot ==
    /\ [](\A t \in CacheThreads :
            (InCall(t) /\ call[t].op = "Size") =>
                /\ {i \in 1..Len(mutex_) : mutex_[i] = t} \subseteq {call[t].idx}
                /\ ~call[t].mutated =>
                      call[t].total_size =
                          Sum([i \in 1..Len(shards_) |->
                                  Cardinality(DOMAIN shards_[i].cache_map_)],
                              1..(IF call[t].pc = "unlock"
                                  THEN call[t].idx ELSE call[t].idx - 1)))
    /\ [][\A t \in CacheThreads :
            (InCall(t) /\ call[t].op = "Size" /\ call'[t].pc # "done") =>
                /\ call'[t].idx \in {call[t].idx, call[t].idx + 1}
                /\ call'[t].idx # call[t].idx => mutex_'[call[t].idx] = 0]_vars
    /\ [](\A t \in CacheThreads :
            (call[t].pc = "done" /\ call[t].op = "Size") =>
                /\ ~call[t].mutated => call[t].seen = {call[t].ret[1]}
                /\ call[t].ret[1] <=
                      Sum([i \in 1..Len(shards_) |-> shards_[i].max_shard_size_],
                          1..Len(shards_)))

\* Size has returned a number of entries the cache held at no instant of the call
C30_Witness ==
    \E t \in CacheThreads :
        /\ call[t].pc = "done"
        /\ call[t].op = "Size"
        /\ call[t].mutated
        /\ call[t].seen = {}

\* ---- claims: the pool under fair scheduling

\* C31: under fair scheduling, with every handle destroyed, no thread stays blocked in
\* acquire() for ever; and while a thread waits on the condition variable with the
\* idle queue non-empty or total_connections_ < max_size_, another thread is about to
\* notify or is on its way to take that slot.
C31_NoLostWakeup ==
    /\ \A t \in Threads :
          (pc[t] \in {"acquire", "waiting"}) ~> (pc[t] \notin {"acquire", "waiting"})
    /\ [](\A t \in Threads :
            (pc[t] = "waiting" /\ WaitPredicate) =>
                \E u \in Threads : pc[u] \in {"acquire", "notify_one", "notify_all"})

\* C32: when the factory throws inside acquire(), the catch block takes exactly one off
\* total_connections_ (and nothing else ever decrements it), the idle queue stays as
\* it is, every waiter is notified, and the exception reaches that caller only, which
\* gets no handle.
C32_FactoryFailure ==
    [][\A t \in Threads :
        /\ (pc[t] = "factory" /\ pc'[t] = "lock_on_fail") =>
              /\ total_connections_' = total_connections_
              /\ idle_connections_' = idle_connections_
        /\ (pc[t] = "lock_on_fail" /\ pc'[t] # "lock_on_fail") =>
              /\ pc'[t] = "notify_all"
              /\ total_connections_' = total_connections_ - 1
              /\ idle_connections_' = idle_connections_
        /\ (pc[t] = "notify_all" /\ pc'[t] # "notify_all") =>
              /\ total_connections_' = total_connections_
              /\ idle_connections_' = idle_connections_
              /\ \A u \in Threads \ {t} :
                    /\ pc[u] = "waiting" => pc'[u] = "acquire"
                    /\ thrown'[u] = thrown[u]
              /\ thrown'[t] = "factory_error"
              /\ ~handle'[t][1].live
        /\ total_connections_' < total_connections_ =>
              \E u \in Threads : pc[u] = "lock_on_fail" /\ pc'[u] = "notify_all"
      ]_vars

\* the factory threw in one caller, and a thread that was blocked with the pool at
\* max_size has been notified and is about to create a connection itself
C32_Witness ==
    \E t, u \in Threads :
        /\ t # u
        /\ thrown[t] = "factory_error"
        /\ pc[u] = "acquire"
        /\ u \in SeqToSet(arrival)
        /\ AcquireBranch = "create"
        /\ total_connections_ = max_size_ - 1

\* ---- claims: connections, ordering and counters of the handlers

\* C33: a request that acquired a connection has returned it when it is over, however
\* the handler was left; so whenever no request is in progress
\* get_idle_count() = get_total_count().
C33_ConnectionReturned ==
    /\ \A t \in Threads : pc[t] \in {"done", "escaped"} => ~HasConnection(t)
    /\ (\A t \in Threads : pc[t] \in {"idle", "done"}) => get_idle_count = get_total_count

\* C34: a handler turns to the pool only after the key is parsed (and, for a GET, the
\* cache probed): while the key is unparsed or the cache is probed the request holds
\* no handle, a request answered 400 is answered from the parse without a handle, and
\* a GET that hits the cache is over without one.
C34_ParseBeforeAcquire ==
    /\ [](\A t \in Threads : pc[t] \in {"route", "parse", "probe"} => ~handle[t][1].live)
    /\ [][\A t \in Threads :
            /\ (pc'[t] = "acquire" /\ pc[t] \notin {"acquire", "waiting"}) =>
                  pc[t] \in {"parse", "probe"}
            /\ (res'[t].status = 400 /\ res[t].status # 400) =>
                  pc[t] = "parse" /\ ~handle'[t][1].live
            /\ (pc[t] = "probe" /\ pc'[t] = "done") => ~handle'[t][1].live
         ]_vars

\* C35: a GET whose key parses increments totalGets as it leaves the parse, before the
\* cache is probed; nothing else changes totalGets, so it is never taken back, whatever
\* the request ends in; cacheHits goes up by one exactly in the probe step of a GET
\* that found a value, and in no other step.
C35_CounterUpdates ==
    [][/\ \A t \in Threads :
            /\ (pc[t] = "parse" /\ req[t].op = "GET" /\ req[t].path = "int"
                    /\ pc'[t] # "parse") =>
                  pc'[t] = "probe" /\ totalGets' = totalGets + 1
            /\ (pc[t] = "probe" /\ pc'[t] # "probe") =>
                  cacheHits' = IF GetValue(req[t].key) # <<>>
                               THEN cacheHits + 1 ELSE cacheHits
       /\ totalGets' # totalGets =>
            /\ totalGets' = totalGets + 1
            /\ \E t \in Threads : req[t].op = "GET" /\ pc[t] = "parse" /\ pc'[t] = "probe"
       /\ cacheHits' # cacheHits =>
            /\ cacheHits' = cacheHits + 1
            /\ \E t \in Threads :
                  /\ req[t].op = "GET" /\ pc[t] = "probe" /\ pc'[t] = "done"
                  /\ GetValue(req[t].key) # <<>>
      ]_vars

\* a GET has ended in 500 or 404 after an earlier GET hit the cache, and both counters
\* stand
C35_Witness ==
    \E t \in Threads :
        /\ req[t].op = "GET"
        /\ pc[t] = "done"
        /\ res[t].status \in {404, 500}
        /\ cacheHits > 0
        /\ totalGets > cacheHits

\* ------------------------------------------ claims: the counters under concurrency

\* no request is between its receipt and its response
NoGetUnderWay == \A t \in Workers : pc[t] \in {"idle", "done"}

\* C36: with totalGets and cacheHits kept as plain counters incremented by concurrent
\* handler threads, once the GETs issued so far have all been answered totalGets
\* differs from the number of increments the GETs executed by at most 1, and so does
\* cacheHits from the number of hits counted
C36_DriftAtMostOne ==
    NoGetUnderWay =>
        /\ counted.gets - totalGets \in {-1, 0, 1}
        /\ counted.hits - cacheHits \in {-1, 0, 1}

\* ------------------------------------------ claims: the load generator from start to stop

\* the workers main has started
StartedWorkers == {i \in ClientWorkers : i < loadgen.spawned}

\* C37: once main has cleared keep_running it stays cleared; a worker enters the loop
\* body only while keep_running is set, so none does before main set it and none
\* does after main cleared it; after the clear a worker completes only a request
\* that was under way, leaves the loop, adds its three counters to the totals and
\* exits; and when every request under way returns, times out or throws, all
\* workers exit and the joins of main complete
C37_Termination ==
    /\ [](loadgen.pc = "parsed" => \A i \in ClientWorkers : worker[i].pc = "unborn")
    /\ [][/\ loadgen.pc # "parsed" /\ ~keep_running => ~keep_running'
          /\ \A i \in ClientWorkers :
                /\ worker[i].pc # "body" /\ worker'[i].pc = "body" => keep_running
                /\ worker'[i].executed # worker[i].executed =>
                      /\ worker[i].pc = "body"
                      /\ worker'[i].pc = "test"
                      /\ worker'[i].executed = worker[i].executed + 1
                /\ ~keep_running /\ worker[i].pc = "test" /\ worker'[i] # worker[i] =>
                      worker'[i] = [worker[i] EXCEPT !.pc = "fold"]
                /\ worker[i].pc = "fold" /\ worker'[i] # worker[i] =>
                      /\ worker'[i] = [worker[i] EXCEPT !.pc = "exited"]
                      /\ total_requests' = total_requests + worker[i].thread_requests
                      /\ total_errors' = total_errors + worker[i].thread_errors
                      /\ total_duration_micros' =
                             total_duration_micros + worker[i].thread_duration_micros
                /\ worker[i].pc = "exited" => worker'[i] = worker[i]
         ]_vars
    /\ [](loadgen.pc = "report" => \A i \in StartedWorkers : worker[i].pc = "exited")
    /\ (loadgen.pc = "join") ~>
           (loadgen.pc = "report" /\ \A i \in StartedWorkers : worker[i].pc = "exited")

\* main has cleared keep_running while a worker has a request under way
C37_Witness ==
    /\ ~keep_running
    /\ loadgen.pc = "join"
    /\ \E i \in StartedWorkers : worker[i].pc = "body" /\ worker[i].executed > 0
    /\ \E i \in StartedWorkers : worker[i].pc = "exited"

\* ------------------------------------------ claims: where cached values come from

\* C38: a step gives the cache a new value for key k only if it is the step of a GET
\* of k that missed and then read that value from the store; a GET holds a value read
\* from the store only from the step that read it, and it is what the store held
\* for the key then; the store gets a new value for k only by the PUT of that value
\* for k.  So no PUT and no DELETE creates a cache entry, and the cache holds no key
\* that was never stored and no value that was never written for its key
C38_CacheFedByStoreReads ==
    [][/\ \A k \in Keys :
            (GetValue(k)' # <<>> /\ GetValue(k)' # GetValue(k)) =>
                \E t \in Workers :
                    /\ req[t].op = "GET" /\ req[t].key = k
                    /\ pc[t] = "fetched" /\ pc'[t] # "fetched"
                    /\ opt_value[t] = GetValue(k)'
       /\ \A t \in Workers :
            (opt_value'[t] # <<>> /\ opt_value'[t] # opt_value[t]) =>
                /\ req[t].op = "GET"
                /\ pc[t] = "have_conn" /\ pc'[t] = "fetched"
                /\ opt_value'[t] = getValueForKey(req[t].key)
       /\ \A k \in Keys :
            (getValueForKey(k)' # <<>> /\ getValueForKey(k)' # getValueForKey(k)) =>
                \E t \in Workers :
                    /\ req[t].op = "PUT" /\ req[t].key = k
                    /\ pc[t] = "have_conn" /\ pc'[t] # "have_conn"
                    /\ getValueForKey(k)' = <<req[t].value>>
      ]_vars

\* the cache holds for a key a value the store held when a GET read it and holds no
\* more, while a DELETE of the key has been answered
C38_Witness ==
    \E k \in ReqKeys :
        /\ GetValue(k) # <<>>
        /\ GetValue(k) # getValueForKey(k)
        /\ \E t \in Workers : req[t].op = "DELETE" /\ req[t].key = k /\ res[t].sent

\* ------------------------------------------ claims: the last statement of acquire

\* C40: whenever a thread in acquire() holds the pool lock with the wait over, be it
\* on entry or after any wakeup, the idle queue is non-empty or total_connections_
\* is below max_size_, so acquire takes one of its two branches and the throw of
\* 'Failed to acquire connection' after them is never reached
C40_ThrowUnreachable ==
    \A t \in Threads :
        /\ pc[t] = "acquire" => AcquireBranch \in {"wait", "idle", "create"}
        /\ (pc[t] = "acquire" /\ AcquireBranch # "wait") =>
              idle_connections_ # <<>> \/ total_connections_ < max_size_

\* a thread that blocked in acquire() has been woken, finds the predicate true and
\* is about to take a branch, while another thread is still blocked
C40_Witness ==
    \E t \in Threads :
        /\ pc[t] = "acquire"
        /\ t \in SeqToSet(arrival)
        /\ AcquireBranch \in {"idle", "create"}
        /\ \E u \in Threads \ {t} : pc[u] = "waiting"

\* ------------------------------------------ claims: a pool as large as the thread count

\* the connections thread t holds
Held(t) == {s \in Slots : handle[t][s].live /\ handle[t][s].connection_ # <<>>}

\* C39: when max_size_ is at least the number of handler threads and the factory
\* always yields a connection, every handler holds at most one connection, holds
\* none while it is inside acquire(), and no handler inside acquire() finds the wait
\* predicate false or is blocked on the condition variable
C39_NoHandlerWaits ==
    max_size_ >= NumWorkers =>
        \A t \in Workers :
            /\ Cardinality(Held(t)) <= 1
            /\ pc[t] \in {"acquire", "waiting", "factory"} => Held(t) = {}
            /\ pc[t] # "waiting"
            /\ pc[t] = "acquire" => WaitPredicate

\* the pool is as large as the thread count and every handler holds a connection at
\* the same time, a third request having been served before
C39_Witness ==
    /\ max_size_ = NumWorkers
    /\ total_connections_ = max_size_
    /\ requests > NumWorkers
    /\ \A t \in Workers : pc[t] = "have_conn" /\ Cardinality(Held(t)) = 1

====
